---- MODULE Spec2Model ----
(***************************************************************************)
(* A model of the hecto text editor: grapheme lines, the document buffer,  *)
(* the view (cursor, scroll offset, search session) and the editor's       *)
(* prompt/mode state machine.                                              *)
(*                                                                         *)
(* Text is a sequence of characters.  Every character has a UTF-8 byte     *)
(* length and a column width; byte indices are 0-based as in the source,   *)
(* and so are grapheme, line, row and column indices.                      *)
(***************************************************************************)
EXTENDS Integers, Sequences, FiniteSets, TLC

VARIABLES
    view,             \* Editor.view: the View with its Buffer
    prompt_type,      \* Editor.prompt_type
    command_bar,      \* Editor.command_bar: prompt and value
    terminal_size,    \* Editor.terminal_size
    quit_times,       \* Editor.quit_times
    should_quit,      \* Editor.should_quit
    message,          \* Editor.message_bar.current_message
    writes,           \* the file writes attempted by the last command
    debug_assertions  \* cfg(debug_assertions) of the build that runs

vars == <<view, prompt_type, command_bar, terminal_size, quit_times,
          should_quit, message, writes, debug_assertions>>

\* ------------------------------------------------------------------------
\* Bounds of the model
\* ------------------------------------------------------------------------
MaxLines == 2       \* lines of an edited document
MaxDocChars == 2    \* characters of an edited document
MaxValueLen == 1    \* characters typed into a prompt
MaxHeight == 2      \* rows of the view
MaxWidth == 2       \* columns of a view that scrolls horizontally

\* ------------------------------------------------------------------------
\* Characters.  "a" is an ASCII letter, "W" a wide CJK character such as
\* U+8001 (3 bytes, 2 columns), "s" a spacing combining mark such as
\* U+093E (3 bytes, 1 column, extends the grapheme before it), "\t" the tab
\* inserted by Edit::InsertTab (a control character).  Files also hold
\* the line feed "\n" and the carriage return "\r" (control characters).
\* ------------------------------------------------------------------------
TAB == "\t"
LF == "\n"
CR == "\r"
KeyChars == {"a"}
Chars == {"a", "W", "s", TAB, LF, CR}

\* char::len_utf8
ByteLen(c) == IF c \in {"W", "s"} THEN 3 ELSE 1

\* UnicodeWidthStr::width of one character
CharWidth(c) == CASE c = "W" -> 2
                  [] c \in {TAB, LF, CR} -> 0
                  [] OTHER -> 1

\* char::is_control
IsControl(c) == c \in {TAB, LF, CR}

\* Grapheme_Extend / SpacingMark: the character continues the grapheme
\* before it (rules GB9, GB9a), unless that grapheme is a control (GB4).
IsExtend(c) == c = "s"

None == [is_some |-> FALSE]
Some(x) == [is_some |-> TRUE, val |-> x]

Min(a, b) == IF a < b THEN a ELSE b
Max(a, b) == IF a > b THEN a ELSE b
\* usize::saturating_sub
SatSub(a, b) == IF a > b THEN a - b ELSE 0

\* str::len: the byte length of a string
RECURSIVE StrByteLen(_)
StrByteLen(s) == IF s = <<>> THEN 0 ELSE ByteLen(Head(s)) + StrByteLen(Tail(s))

\* the byte offset of the character with 0-based character index i
ByteOffset(s, i) == StrByteLen(SubSeq(s, 1, i))

\* str::is_char_boundary
IsCharBoundary(s, b) == \E i \in 0..Len(s) : ByteOffset(s, i) = b

\* the 0-based character index of the char boundary at byte b
CharIdxOfByte(s, b) == CHOOSE i \in 0..Len(s) : ByteOffset(s, i) = b

\* UnicodeWidthStr::width of a grapheme
RECURSIVE StrWidth(_)
StrWidth(s) == IF s = <<>> THEN 0 ELSE CharWidth(Head(s)) + StrWidth(Tail(s))

\* ------------------------------------------------------------------------
\* Line (editor/line/mod.rs)
\* ------------------------------------------------------------------------

\* Line::get_replacement_character
get_replacement_character(for_str) ==
    CASE for_str = <<TAB>> -> Some(" ")
      [] \A i \in 1..Len(for_str) : IsControl(for_str[i]) -> Some("control")
      [] StrWidth(for_str) = 0 -> Some("zero_width")
      [] OTHER -> None

\* the 1-based index of the last character of the grapheme starting at
\* the character with 1-based index i (unicode_segmentation, extended)
RECURSIVE GraphemeEnd(_, _)
GraphemeEnd(s, i) ==
    IF i < Len(s) /\ IsExtend(s[i + 1]) /\ ~IsControl(s[i])
    THEN GraphemeEnd(s, i + 1)
    ELSE i

\* Line::str_to_fragments, for the characters of s from 1-based index i on
RECURSIVE FragmentsFrom(_, _)
FragmentsFrom(s, i) ==
    IF i > Len(s) THEN <<>>
    ELSE LET e == GraphemeEnd(s, i)
             grapheme == SubSeq(s, i, e)
             replacement == get_replacement_character(grapheme)
             rendered_width ==
                 IF replacement.is_some THEN "Half"
                 ELSE IF StrWidth(grapheme) \in {0, 1} THEN "Half" ELSE "Full"
         IN  <<[start_byte_idx |-> ByteOffset(s, i - 1),
                grapheme |-> grapheme,
                rendered_width |-> rendered_width,
                replacement |-> replacement]>> \o FragmentsFrom(s, e + 1)

str_to_fragments(line_str) == FragmentsFrom(line_str, 1)

\* Line::from
Line_from(line_str) ==
    [string |-> line_str, fragments |-> str_to_fragments(line_str)]

\* Line::default
Line_default == [string |-> <<>>, fragments |-> <<>>]

\* Line::grapheme_count
grapheme_count(line) == Len(line.fragments)

\* Line::width_until
RECURSIVE SumWidths(_, _)
SumWidths(fragments, n) ==
    IF n = 0 \/ fragments = <<>> THEN 0
    ELSE (IF Head(fragments).rendered_width = "Half" THEN 1 ELSE 2)
         + SumWidths(Tail(fragments), n - 1)

\* a width that counts one column for every grapheme
width_until_by_count(line, grapheme_idx) ==
    Min(grapheme_idx, Len(line.fragments))

width_until(line, grapheme_idx) == SumWidths(line.fragments, grapheme_idx)

\* Line::width
width(line) == width_until(line, grapheme_count(line))

\* the glyphs that are drawn in place of graphemes: the ellipsis, and the
\* replacement characters by the names get_replacement_character gives
Ellipsis == "..."

\* char::len_utf8 of the characters of a drawn text
GlyphByteLen(c) == CASE c \in {Ellipsis, "control"} -> 3
                     [] c = "zero_width" -> 2
                     [] OTHER -> ByteLen(c)

\* the 0-based index of the character of text at byte offset b, the
\* length of text when b is its byte length
RECURSIVE GlyphIdxOfByte(_, _)
GlyphIdxOfByte(text, b) ==
    IF text = <<>> \/ b < GlyphByteLen(Head(text)) THEN 0
    ELSE 1 + GlyphIdxOfByte(Tail(text), b - GlyphByteLen(Head(text)))

\* AnnotatedString::replace, on the text: the bytes start_byte_idx up to
\* end_byte_idx are replaced by new_string
AnnotatedString_replace(text, start_byte_idx, end_byte_idx, new_string) ==
    SubSeq(text, 1, GlyphIdxOfByte(text, start_byte_idx))
        \o new_string
        \o SubSeq(text, GlyphIdxOfByte(text, end_byte_idx) + 1, Len(text))

\* the loop of Line::get_annotated_visible_substr over fragments k, k - 1,
\* ..., 1 (1-based), fragment k ending at column fragment_end
RECURSIVE VisibleSubstr(_, _, _, _, _, _)
VisibleSubstr(line, k, fragment_end, range_start, range_end, result) ==
    IF k = 0 THEN result
    ELSE LET fragment == line.fragments[k]
             fragment_start ==
                 SatSub(fragment_end,
                        IF fragment.rendered_width = "Half" THEN 1 ELSE 2)
             end_byte_idx == fragment.start_byte_idx
                                 + StrByteLen(fragment.grapheme)
         IN  IF fragment_start > range_end
             THEN VisibleSubstr(line, k - 1, fragment_start, range_start,
                                range_end, result)
             ELSE IF fragment_start < range_end /\ fragment_end > range_end
             THEN VisibleSubstr(line, k - 1, fragment_start, range_start,
                                range_end,
                                AnnotatedString_replace(result,
                                    fragment.start_byte_idx,
                                    StrByteLen(line.string), <<Ellipsis>>))
             ELSE IF fragment_start = range_end
             THEN VisibleSubstr(line, k - 1, fragment_start, range_start,
                                range_end,
                                AnnotatedString_replace(result,
                                    fragment.start_byte_idx,
                                    StrByteLen(line.string), <<>>))
             ELSE IF fragment_end <= range_start
             THEN AnnotatedString_replace(result, 0, end_byte_idx, <<>>)
             ELSE IF fragment_start < range_start /\ fragment_end > range_start
             THEN AnnotatedString_replace(result, 0, end_byte_idx,
                                          <<Ellipsis>>)
             ELSE IF /\ fragment_start >= range_start
                     /\ fragment_end <= range_end
                     /\ fragment.replacement.is_some
             THEN VisibleSubstr(line, k - 1, fragment_start, range_start,
                                range_end,
                                AnnotatedString_replace(result,
                                    fragment.start_byte_idx, end_byte_idx,
                                    <<fragment.replacement.val>>))
             ELSE VisibleSubstr(line, k - 1, fragment_start, range_start,
                                range_end, result)

\* the visible text with nothing cut at the left edge
get_annotated_visible_substr_from_0(line, range_start, range_end) ==
    VisibleSubstr(line, grapheme_count(line), width(line), 0, range_end,
                  line.string)

\* Line::get_annotated_visible_substr without a query, as its text
get_annotated_visible_substr(line, range_start, range_end) ==
    VisibleSubstr(line, grapheme_count(line), width(line), range_start,
                  range_end, line.string)

\* Line::get_visible_graphemes
get_visible_graphemes(line, range_start, range_end) ==
    get_annotated_visible_substr(line, range_start, range_end)

\* Deref<Target = str>::is_empty
Line_is_empty(line) == line.string = <<>>

\* String::insert / String::split_off / String::drain on character
\* sequences, addressed by 0-based character index
InsertAt(s, i, c) == SubSeq(s, 1, i) \o <<c>> \o SubSeq(s, i + 1, Len(s))
RemoveRange(s, i, j) == SubSeq(s, 1, i) \o SubSeq(s, j + 1, Len(s))

\* Line::insert_char: the debug assertion, and String::insert which
\* panics when the byte index is not a char boundary of the string
Line_insert_char_panics(line, ch, at) ==
    \/ debug_assertions /\ SatSub(at, 1) > grapheme_count(line)
    \/ /\ at < grapheme_count(line)
       /\ ~IsCharBoundary(line.string, line.fragments[at + 1].start_byte_idx)

Line_insert_char(line, ch, at) ==
    IF at < grapheme_count(line)
    THEN Line_from(InsertAt(line.string,
             CharIdxOfByte(line.string, line.fragments[at + 1].start_byte_idx),
             ch))
    ELSE Line_from(Append(line.string, ch))

\* Line::delete: the debug assertion, and String::drain which panics when
\* the range is out of bounds or not on char boundaries
Line_delete_panics(line, at) ==
    \/ debug_assertions /\ at > grapheme_count(line)
    \/ /\ at < grapheme_count(line)
       /\ LET start == line.fragments[at + 1].start_byte_idx
              end == start + StrByteLen(line.fragments[at + 1].grapheme)
          IN  ~(IsCharBoundary(line.string, start)
                /\ IsCharBoundary(line.string, end))

\* a delete that removes nothing
Line_delete_nothing(line, at) == Line_from(line.string)

Line_delete(line, at) ==
    IF at < grapheme_count(line)
    THEN LET start == line.fragments[at + 1].start_byte_idx
             end == start + StrByteLen(line.fragments[at + 1].grapheme)
         IN  Line_from(RemoveRange(line.string,
                                   CharIdxOfByte(line.string, start),
                                   CharIdxOfByte(line.string, end)))
    ELSE Line_from(line.string)

\* Line::append
Line_append(line, other) == Line_from(line.string \o other.string)

\* Line::append_char
Line_append_char_panics(line, ch) ==
    Line_insert_char_panics(line, ch, grapheme_count(line))

Line_append_char(line, ch) == Line_insert_char(line, ch, grapheme_count(line))

\* Line::split: String::split_off(at) takes `at` as a byte index and
\* panics when it is not a char boundary; Vec::split_off(at) panics when
\* at > len.  Neither part has its fragments rebuilt.
Line_split_panics(line, at) ==
    \/ ~IsCharBoundary(line.string, at)
    \/ at > Len(line.fragments)

Line_split(line, at) ==
    LET i == CharIdxOfByte(line.string, at)
    IN  [left |-> [string |-> SubSeq(line.string, 1, i),
                   fragments |-> SubSeq(line.fragments, 1, at)],
         right |-> [string |-> SubSeq(line.string, i + 1, Len(line.string)),
                    fragments |-> SubSeq(line.fragments, at + 1,
                                         Len(line.fragments))]]

\* Line::delete_last
Line_delete_last_panics(line) ==
    Line_delete_panics(line, SatSub(grapheme_count(line), 1))

Line_delete_last(line) == Line_delete(line, SatSub(grapheme_count(line), 1))

\* str::find: the byte offset in s of the first occurrence of query
Occurs(s, query, i) ==
    /\ i + Len(query) <= Len(s)
    /\ SubSeq(s, i + 1, i + Len(query)) = query

str_find(s, query) ==
    IF \E i \in 0..Len(s) : Occurs(s, query, i)
    THEN Some(ByteOffset(s,
             CHOOSE i \in 0..Len(s) :
                 /\ Occurs(s, query, i)
                 /\ \A j \in 0..(i - 1) : ~Occurs(s, query, j)))
    ELSE None

\* Line::byte_idx_to_grapheme_idx: the position of the first fragment
\* starting at or after byte_idx; without one, a panic in a debug build
\* and 0 in a release build
byte_idx_to_grapheme_idx_panics(line, byte_idx) ==
    /\ debug_assertions
    /\ \/ byte_idx > StrByteLen(line.string)
       \/ \A k \in 1..Len(line.fragments) :
              line.fragments[k].start_byte_idx < byte_idx

byte_idx_to_grapheme_idx(line, byte_idx) ==
    IF \E k \in 1..Len(line.fragments) :
           line.fragments[k].start_byte_idx >= byte_idx
    THEN (CHOOSE k \in 1..Len(line.fragments) :
              /\ line.fragments[k].start_byte_idx >= byte_idx
              /\ \A j \in 1..(k - 1) :
                     line.fragments[j].start_byte_idx < byte_idx) - 1
    ELSE 0

\* Line::grapheme_idx_to_byte_idx
grapheme_idx_to_byte_idx_panics(line, grapheme_idx) ==
    /\ debug_assertions
    /\ \/ grapheme_idx > grapheme_count(line)
       \/ /\ grapheme_idx # 0
          /\ grapheme_count(line) # 0
          /\ grapheme_idx >= grapheme_count(line)

grapheme_idx_to_byte_idx(line, grapheme_idx) ==
    IF grapheme_idx = 0 \/ grapheme_count(line) = 0 THEN 0
    ELSE IF grapheme_idx < grapheme_count(line)
         THEN line.fragments[grapheme_idx + 1].start_byte_idx
         ELSE 0

\* the slice string.get(start_byte_idx..) and the match found in it
SearchSlice(line, from_grapheme_idx) ==
    LET start_byte_idx == grapheme_idx_to_byte_idx(line, from_grapheme_idx)
    IN  IF IsCharBoundary(line.string, start_byte_idx)
        THEN Some(SubSeq(line.string,
                         CharIdxOfByte(line.string, start_byte_idx) + 1,
                         Len(line.string)))
        ELSE None

SearchHit(line, query, from_grapheme_idx) ==
    LET substr == SearchSlice(line, from_grapheme_idx)
    IN  IF substr.is_some THEN str_find(substr.val, query) ELSE None

\* Line::search_forward
Line_search_forward_panics(line, query, from_grapheme_idx) ==
    /\ ~(Line_is_empty(line) \/ from_grapheme_idx >= grapheme_count(line))
    /\ \/ grapheme_idx_to_byte_idx_panics(line, from_grapheme_idx)
       \/ LET hit == SearchHit(line, query, from_grapheme_idx)
          IN  hit.is_some /\ byte_idx_to_grapheme_idx_panics(line, hit.val)

Line_search_forward(line, query, from_grapheme_idx) ==
    IF Line_is_empty(line) \/ from_grapheme_idx >= grapheme_count(line)
    THEN None
    ELSE LET hit == SearchHit(line, query, from_grapheme_idx)
         IN  IF hit.is_some
             THEN Some(byte_idx_to_grapheme_idx(line, hit.val)
                       + from_grapheme_idx)
             ELSE None

\* str::match_indices: the character indices of the disjoint matches of
\* query in s at or after character i, found from left to right; the
\* search for the next match resumes behind the previous one
RECURSIVE match_indices(_, _, _)
match_indices(s, query, i) ==
    IF \E j \in i..Len(s) : Occurs(s, query, j)
    THEN LET first == CHOOSE j \in i..Len(s) :
                          /\ Occurs(s, query, j)
                          /\ \A k \in i..(j - 1) : ~Occurs(s, query, k)
         IN  <<first>> \o
             match_indices(s, query,
                           first + IF query = <<>> THEN 1 ELSE Len(query))
    ELSE <<>>

\* the slice string.get(..end_byte_idx) of Line::search_backward
SearchSliceBefore(line, from_grapheme_idx) ==
    LET end_byte_idx ==
            IF from_grapheme_idx = grapheme_count(line)
            THEN StrByteLen(line.string)
            ELSE grapheme_idx_to_byte_idx(line, from_grapheme_idx)
    IN  IF IsCharBoundary(line.string, end_byte_idx)
        THEN Some(SubSeq(line.string, 1,
                         CharIdxOfByte(line.string, end_byte_idx)))
        ELSE None

\* match_indices(query).last() in that slice, as a byte offset
SearchHitBefore(line, query, from_grapheme_idx) ==
    LET substr == SearchSliceBefore(line, from_grapheme_idx)
    IN  IF substr.is_some /\ match_indices(substr.val, query, 0) # <<>>
        THEN Some(ByteOffset(substr.val,
                 match_indices(substr.val, query, 0)
                     [Len(match_indices(substr.val, query, 0))]))
        ELSE None

\* Line::search_backward
Line_search_backward_panics(line, query, from_grapheme_idx) ==
    \/ debug_assertions /\ from_grapheme_idx > grapheme_count(line)
    \/ /\ ~(Line_is_empty(line) \/ from_grapheme_idx = 0)
       /\ \/ /\ from_grapheme_idx # grapheme_count(line)
             /\ grapheme_idx_to_byte_idx_panics(line, from_grapheme_idx)
          \/ LET hit == SearchHitBefore(line, query, from_grapheme_idx)
             IN  hit.is_some /\ byte_idx_to_grapheme_idx_panics(line, hit.val)

Line_search_backward(line, query, from_grapheme_idx) ==
    IF Line_is_empty(line) \/ from_grapheme_idx = 0
    THEN None
    ELSE LET hit == SearchHitBefore(line, query, from_grapheme_idx)
         IN  IF hit.is_some
             THEN Some(byte_idx_to_grapheme_idx(line, hit.val))
             ELSE None

\* ------------------------------------------------------------------------
\* Buffer (editor/ui/view/buffer.rs).  A buffer is a record of file_info
\* (the path, if any), lines and dirty.
\* ------------------------------------------------------------------------

Location(line_idx, grapheme_idx) ==
    [line_idx |-> line_idx, grapheme_idx |-> grapheme_idx]

\* Buffer::default
\* FileInfo: the file association of a buffer, an optional path.
\* FileInfo::default has no path, FileInfo::from(filename) has the path
\* filename, has_path tells and get_path gives the path.
FileInfo_default == None
FileInfo_from(filename) == Some(filename)
has_path(file_info) == file_info.is_some
get_path(file_info) == file_info

Buffer_default == [file_info |-> FileInfo_default, lines |-> <<>>, dirty |-> FALSE]

\* Buffer::is_file_loaded
Buffer_is_file_loaded(buffer) == has_path(buffer.file_info)

\* Buffer::is_empty
Buffer_is_empty(buffer) == buffer.lines = <<>>

\* Buffer::get_height
get_height(buffer) == Len(buffer.lines)

\* Vec::insert / Vec::remove at a 0-based index
VecInsert(v, i, x) == SubSeq(v, 1, i) \o <<x>> \o SubSeq(v, i + 1, Len(v))
VecRemove(v, i) == SubSeq(v, 1, i) \o SubSeq(v, i + 2, Len(v))

\* Buffer::insert_char
Buffer_insert_char_panics(buffer, ch, at) ==
    /\ at.line_idx < get_height(buffer)
    /\ Line_insert_char_panics(buffer.lines[at.line_idx + 1], ch,
                               at.grapheme_idx)

\* an insert_char that does not mark the buffer
Buffer_insert_char_unmarked(buffer, ch, at) ==
    [buffer EXCEPT
        !.lines = IF at.line_idx < get_height(buffer)
                  THEN [@ EXCEPT ![at.line_idx + 1] =
                            Line_insert_char(@, ch, at.grapheme_idx)]
                  ELSE Append(@, Line_from(<<ch>>))]

Buffer_insert_char(buffer, ch, at) ==
    [buffer EXCEPT
        !.lines = IF at.line_idx < get_height(buffer)
                  THEN [@ EXCEPT ![at.line_idx + 1] =
                            Line_insert_char(@, ch, at.grapheme_idx)]
                  ELSE Append(@, Line_from(<<ch>>)),
        !.dirty = TRUE]

\* Buffer::delete
Buffer_delete_panics(buffer, at) ==
    LET height == get_height(buffer)
    IN  /\ at.line_idx < height
        /\ ~(/\ at.line_idx < SatSub(height, 1)
             /\ at.grapheme_idx = grapheme_count(buffer.lines[at.line_idx + 1]))
        /\ Line_delete_panics(buffer.lines[at.line_idx + 1], at.grapheme_idx)

\* a delete that never joins two lines
Buffer_delete_in_line(buffer, at) ==
    IF at.line_idx < get_height(buffer)
    THEN [buffer EXCEPT
             !.lines[at.line_idx + 1] = Line_delete(@, at.grapheme_idx),
             !.dirty = TRUE]
    ELSE buffer

\* a delete that drops the line it is on when the line is empty
Buffer_delete_dropping_empty_line(buffer, at) ==
    LET height == get_height(buffer)
    IN  IF at.line_idx < height
        THEN IF grapheme_count(buffer.lines[at.line_idx + 1]) = 0
             THEN [buffer EXCEPT !.lines = VecRemove(@, at.line_idx),
                                 !.dirty = TRUE]
             ELSE IF /\ at.line_idx < SatSub(height, 1)
                     /\ at.grapheme_idx
                            = grapheme_count(buffer.lines[at.line_idx + 1])
             THEN [buffer EXCEPT
                      !.lines = [VecRemove(buffer.lines, at.line_idx + 1)
                                     EXCEPT ![at.line_idx + 1] =
                                         Line_append(@,
                                             buffer.lines[at.line_idx + 2])],
                      !.dirty = TRUE]
             ELSE [buffer EXCEPT
                      !.lines[at.line_idx + 1] =
                          Line_delete(@, at.grapheme_idx),
                      !.dirty = TRUE]
        ELSE buffer

Buffer_delete(buffer, at) ==
    LET height == get_height(buffer)
    IN  IF at.line_idx < height
        THEN IF /\ at.line_idx < SatSub(height, 1)
                /\ at.grapheme_idx
                       = grapheme_count(buffer.lines[at.line_idx + 1])
             THEN LET next_line == buffer.lines[at.line_idx + 2]
                      removed == VecRemove(buffer.lines, at.line_idx + 1)
                  IN  [buffer EXCEPT
                          !.lines = [removed EXCEPT ![at.line_idx + 1] =
                                        Line_append(@, next_line)],
                          !.dirty = TRUE]
             ELSE [buffer EXCEPT
                      !.lines[at.line_idx + 1] =
                          Line_delete(@, at.grapheme_idx),
                      !.dirty = TRUE]
        ELSE buffer

\* Buffer::insert_newline
Buffer_insert_newline_panics(buffer, at) ==
    /\ at.line_idx < get_height(buffer)
    /\ Line_split_panics(buffer.lines[at.line_idx + 1], at.grapheme_idx)

Buffer_insert_newline(buffer, at) ==
    IF at.line_idx < get_height(buffer)
    THEN LET parts == Line_split(buffer.lines[at.line_idx + 1],
                                 at.grapheme_idx)
         IN  [buffer EXCEPT
                 !.lines = VecInsert([@ EXCEPT ![at.line_idx + 1] = parts.left],
                                     at.line_idx + 1, parts.right),
                 !.dirty = TRUE]
    ELSE [buffer EXCEPT !.lines = Append(@, Line_default), !.dirty = TRUE]

\* the loop of Buffer::search_forward from the line with 0-based index
\* line_idx on
RECURSIVE SearchLinesFrom(_, _, _, _)
SearchLinesFrom(buffer, query, from, line_idx) ==
    IF line_idx >= get_height(buffer) THEN None
    ELSE LET from_grapheme_idx ==
                 IF line_idx = from.line_idx THEN from.grapheme_idx ELSE 0
             found == Line_search_forward(buffer.lines[line_idx + 1], query,
                                          from_grapheme_idx)
         IN  IF found.is_some
             THEN Some(Location(line_idx, found.val))
             ELSE SearchLinesFrom(buffer, query, from, line_idx + 1)

RECURSIVE SearchLinesFrom_panics(_, _, _, _)
SearchLinesFrom_panics(buffer, query, from, line_idx) ==
    IF line_idx >= get_height(buffer) THEN FALSE
    ELSE LET from_grapheme_idx ==
                 IF line_idx = from.line_idx THEN from.grapheme_idx ELSE 0
             line == buffer.lines[line_idx + 1]
         IN  \/ Line_search_forward_panics(line, query, from_grapheme_idx)
             \/ /\ ~Line_search_forward(line, query, from_grapheme_idx).is_some
                /\ SearchLinesFrom_panics(buffer, query, from, line_idx + 1)

\* Buffer::search_forward
Buffer_search_forward_panics(buffer, query, from) ==
    SearchLinesFrom_panics(buffer, query, from, from.line_idx)

Buffer_search_forward(buffer, query, from) ==
    SearchLinesFrom(buffer, query, from, from.line_idx)

\* Buffer::search_backward: the body is the one of search_forward
Buffer_search_backward_panics(buffer, query, from) ==
    SearchLinesFrom_panics(buffer, query, from, from.line_idx)

Buffer_search_backward(buffer, query, from) ==
    SearchLinesFrom(buffer, query, from, from.line_idx)

\* ------------------------------------------------------------------------
\* View (editor/ui/view/mod.rs).  A view is a record of buffer, size,
\* text_location, scroll_offset and search_info; its field panicked is
\* set by an operation in which the process panics.
\* ------------------------------------------------------------------------

Position(row, col) == [row |-> row, col |-> col]
Size(h, w) == [height |-> h, width |-> w]

\* View::default
View_default ==
    [buffer |-> Buffer_default,
     size |-> Size(0, 0),
     text_location |-> Location(0, 0),
     scroll_offset |-> Position(0, 0),
     search_info |-> None,
     panicked |-> FALSE]

Panic(v) == [v EXCEPT !.panicked = TRUE]

\* the line under the cursor: buffer.lines.get(text_location.line_idx)
HasCurrentLine(v) == v.text_location.line_idx < get_height(v.buffer)
CurrentLine(v) == v.buffer.lines[v.text_location.line_idx + 1]
CurrentLineLen(v) ==
    IF HasCurrentLine(v) THEN grapheme_count(CurrentLine(v)) ELSE 0

\* View::text_location_to_position
text_location_to_position(v) ==
    Position(v.text_location.line_idx,
             IF HasCurrentLine(v)
             THEN width_until(CurrentLine(v), v.text_location.grapheme_idx)
             ELSE 0)

\* View::caret_position
caret_position(v) ==
    LET p == text_location_to_position(v)
    IN  Position(SatSub(p.row, v.scroll_offset.row),
                 SatSub(p.col, v.scroll_offset.col))

\* a scroll that puts the row at the top of the view whenever it is
\* outside
scroll_vertically_to_top(v, to) ==
    IF to < v.scroll_offset.row \/ to >= v.scroll_offset.row + v.size.height
    THEN [v EXCEPT !.scroll_offset.row = to]
    ELSE v

\* View::scroll_vertically
scroll_vertically(v, to) ==
    LET row == v.scroll_offset.row
        height == v.size.height
    IN  IF to < row
        THEN [v EXCEPT !.scroll_offset.row = to]
        ELSE IF to >= row + height
             THEN [v EXCEPT !.scroll_offset.row = SatSub(to, height) + 1]
             ELSE v

\* View::scroll_horizontally
scroll_horizontally(v, to) ==
    LET col == v.scroll_offset.col
        w == v.size.width
    IN  IF to < col
        THEN [v EXCEPT !.scroll_offset.col = to]
        ELSE IF to >= col + w
             THEN [v EXCEPT !.scroll_offset.col = SatSub(to, w) + 1]
             ELSE v

\* the flag needs_redraw of the view after View::scroll_vertically and
\* View::scroll_horizontally, by the flag before:
\* set_needs_redraw(offset_changed || get_needs_redraw())
scroll_vertically_needs_redraw(v, to, needs_redraw) ==
    \/ to < v.scroll_offset.row
    \/ to >= v.scroll_offset.row + v.size.height
    \/ needs_redraw

scroll_horizontally_needs_redraw(v, to, needs_redraw) ==
    \/ to < v.scroll_offset.col
    \/ to >= v.scroll_offset.col + v.size.width
    \/ needs_redraw

\* View::scroll_text_location_into_view
scroll_text_location_into_view(v) ==
    LET p == text_location_to_position(v)
    IN  scroll_horizontally(scroll_vertically(v, p.row), p.col)

\* View::snap_to_valid_grapheme
snap_to_valid_grapheme(v) ==
    [v EXCEPT !.text_location.grapheme_idx =
        IF HasCurrentLine(v)
        THEN Min(grapheme_count(CurrentLine(v)), v.text_location.grapheme_idx)
        ELSE 0]

\* View::snap_to_valid_line
snap_to_valid_line(v) ==
    [v EXCEPT !.text_location.line_idx = Min(@, get_height(v.buffer))]

\* View::move_up
move_up(v, step) ==
    snap_to_valid_grapheme(
        [v EXCEPT !.text_location.line_idx = SatSub(@, step)])

\* a move down that snaps the grapheme index and leaves the line index
move_down_unsnapped(v, step) ==
    snap_to_valid_grapheme([v EXCEPT !.text_location.line_idx = @ + step])

\* View::move_down
move_down(v, step) ==
    snap_to_valid_line(snap_to_valid_grapheme(
        [v EXCEPT !.text_location.line_idx = @ + step]))

\* View::move_to_start_of_line
move_to_start_of_line(v) == [v EXCEPT !.text_location.grapheme_idx = 0]

\* View::move_to_end_of_line
move_to_end_of_line(v) ==
    [v EXCEPT !.text_location.grapheme_idx = CurrentLineLen(v)]

\* View::move_left
move_left(v, step) ==
    IF v.text_location.grapheme_idx = 0 /\ v.text_location.line_idx > 0
    THEN move_to_end_of_line(move_up(v, 1))
    ELSE snap_to_valid_grapheme(
             [v EXCEPT !.text_location.grapheme_idx = SatSub(@, step)])

\* View::move_right
move_right(v, step) ==
    LET length == CurrentLineLen(v)
        moved == [v EXCEPT !.text_location.grapheme_idx = @ + step]
    IN  IF moved.text_location.grapheme_idx > length
        THEN move_down(moved, 1)
        ELSE snap_to_valid_grapheme(moved)

Moves == {"Up", "Down", "Left", "Right", "PageUp", "PageDown",
          "StartOfLine", "EndOfLine"}

\* View::handle_move_command
handle_move_command(v, move) ==
    LET height == v.size.height
        moved == CASE move = "Up" -> move_up(v, 1)
                   [] move = "Down" -> move_down(v, 1)
                   [] move = "Left" -> move_left(v, 1)
                   [] move = "Right" -> move_right(v, 1)
                   [] move = "PageUp" -> move_up(v, SatSub(height, 1))
                   [] move = "PageDown" -> move_down(v, SatSub(height, 1))
                   [] move = "StartOfLine" -> move_to_start_of_line(v)
                   [] move = "EndOfLine" -> move_to_end_of_line(v)
    IN  scroll_text_location_into_view(moved)

\* View::insert_char
View_insert_char(v, ch) ==
    IF Buffer_insert_char_panics(v.buffer, ch, v.text_location) THEN Panic(v)
    ELSE LET old_len == CurrentLineLen(v)
             inserted == [v EXCEPT !.buffer =
                             Buffer_insert_char(@, ch, v.text_location)]
             new_len == CurrentLineLen(inserted)
         IN  IF SatSub(new_len, old_len) > 0
             THEN handle_move_command(inserted, "Right")
             ELSE inserted

\* View::insert_tab
insert_tab(v) == View_insert_char(v, TAB)

\* View::insert_newline
View_insert_newline(v) ==
    IF Buffer_insert_newline_panics(v.buffer, v.text_location) THEN Panic(v)
    ELSE handle_move_command(
             [v EXCEPT !.buffer = Buffer_insert_newline(@, v.text_location)],
             "Right")

\* View::delete
View_delete(v) ==
    IF Buffer_delete_panics(v.buffer, v.text_location) THEN Panic(v)
    ELSE [v EXCEPT !.buffer = Buffer_delete(@, v.text_location)]

\* View::delete_backward
delete_backward(v) ==
    IF v.text_location.line_idx = 0 /\ v.text_location.grapheme_idx = 0
    THEN v
    ELSE View_delete(handle_move_command(v, "Left"))

\* View::handle_edit_command
handle_edit_command(v, edit) ==
    CASE edit.edit = "Insert" -> View_insert_char(v, edit.ch)
      [] edit.edit = "InsertTab" -> insert_tab(v)
      [] edit.edit = "InsertNewline" -> View_insert_newline(v)
      [] edit.edit = "Delete" -> View_delete(v)
      [] edit.edit = "DeleteBackward" -> delete_backward(v)

\* View::enter_search
enter_search(v) ==
    [v EXCEPT !.search_info =
        Some([previous_location |-> v.text_location, query |-> None])]

\* dismiss_search that ends the session without restoring the cursor
dismiss_search_keeps_cursor(v) ==
    IF v.search_info.is_some
    THEN scroll_text_location_into_view([v EXCEPT !.search_info = None])
    ELSE v

\* a dismiss that restores the cursor and keeps the session
dismiss_search_keeping_session(v) ==
    IF v.search_info.is_some
    THEN scroll_text_location_into_view(
             [v EXCEPT !.text_location = v.search_info.val.previous_location])
    ELSE v

\* View::dismiss_search
dismiss_search(v) ==
    IF v.search_info.is_some
    THEN scroll_text_location_into_view(
             [v EXCEPT !.text_location = v.search_info.val.previous_location,
                       !.search_info = None])
    ELSE v

\* View::get_search_query: the debug assertion that a query is present
get_search_query_panics(v) ==
    /\ debug_assertions
    /\ ~(v.search_info.is_some /\ v.search_info.val.query.is_some)

get_search_query(v) ==
    IF v.search_info.is_some THEN v.search_info.val.query ELSE None

\* search_in_direction that moves the cursor to the start of the search
\* when nothing is found
search_in_direction_jumps(v, from, direction) ==
    LET query == IF v.search_info.is_some THEN v.search_info.val.query ELSE None
    IN  IF debug_assertions /\ ~query.is_some THEN Panic(v)
        ELSE IF ~query.is_some \/ Line_is_empty(query.val) THEN v
        ELSE IF Buffer_search_forward_panics(v.buffer, query.val.string, from)
        THEN Panic(v)
        ELSE scroll_text_location_into_view(
                 [v EXCEPT !.text_location =
                     IF Buffer_search_forward(v.buffer, query.val.string,
                                              from).is_some
                     THEN Buffer_search_forward(v.buffer, query.val.string,
                                                from).val
                     ELSE Location(Min(from.line_idx, get_height(v.buffer)),
                                   0)])

\* View::search_in_direction
search_in_direction(v, from, direction) ==
    LET query == get_search_query(v)
    IN  IF get_search_query_panics(v) THEN Panic(v)
        ELSE IF ~query.is_some \/ Line_is_empty(query.val) THEN v
        ELSE IF direction = "Forward"
        THEN IF Buffer_search_forward_panics(v.buffer, query.val.string, from)
             THEN Panic(v)
             ELSE LET location == Buffer_search_forward(v.buffer,
                                      query.val.string, from)
                  IN  IF location.is_some
                      THEN scroll_text_location_into_view(
                               [v EXCEPT !.text_location = location.val])
                      ELSE v
        ELSE IF Buffer_search_backward_panics(v.buffer, query.val.string, from)
             THEN Panic(v)
             ELSE LET location == Buffer_search_backward(v.buffer,
                                      query.val.string, from)
                  IN  IF location.is_some
                      THEN scroll_text_location_into_view(
                               [v EXCEPT !.text_location = location.val])
                      ELSE v

\* search that restarts at the location the session was entered at
search_from_origin(v, query) ==
    LET set == IF v.search_info.is_some
               THEN [v EXCEPT !.search_info.val.query = Some(Line_from(query))]
               ELSE v
    IN  search_in_direction(set,
            IF set.search_info.is_some
            THEN set.search_info.val.previous_location
            ELSE set.text_location,
            "Forward")

\* View::search
search(v, query) ==
    LET set == IF v.search_info.is_some
               THEN [v EXCEPT !.search_info.val.query = Some(Line_from(query))]
               ELSE v
    IN  search_in_direction(set, set.text_location, "Forward")

\* View::search_next
search_next(v) ==
    IF get_search_query_panics(v) THEN Panic(v)
    ELSE LET query == get_search_query(v)
             step_right == IF query.is_some
                           THEN Max(grapheme_count(query.val), 1)
                           ELSE 1
             location == Location(v.text_location.line_idx,
                                  v.text_location.grapheme_idx + step_right)
         IN  search_in_direction(v, location, "Forward")

\* View::search_backward
View_search_backward(v) == search_in_direction(v, v.text_location, "Backward")

\* View::set_size
set_size(v, size) == scroll_text_location_into_view([v EXCEPT !.size = size])

\* ------------------------------------------------------------------------
\* CommandBar (editor/ui/commandbar.rs): a record of prompt, value (a
\* Line) and size.
\* ------------------------------------------------------------------------

SavePrompt == "Save as: "
SearchPrompt == "Search: "

\* str::len of the prompt texts passed by Editor::set_prompt
PromptLen(prompt) == CASE prompt = SavePrompt -> 9
                       [] prompt = SearchPrompt -> 8
                       [] OTHER -> 0

\* CommandBar::default
CommandBar_default ==
    [prompt |-> "", value |-> Line_default, size |-> Size(0, 0)]

\* CommandBar::handle_edit_command
CommandBar_handle_edit_command_panics(bar, edit) ==
    CASE edit.edit = "Insert" -> Line_append_char_panics(bar.value, edit.ch)
      [] edit.edit = "InsertTab" -> Line_append_char_panics(bar.value, TAB)
      [] edit.edit = "DeleteBackward" -> Line_delete_last_panics(bar.value)
      [] OTHER -> FALSE

\* a command bar that ignores what is typed
CommandBar_ignores_edit_command(bar, edit) == bar

CommandBar_handle_edit_command(bar, edit) ==
    CASE edit.edit = "Insert" ->
             [bar EXCEPT !.value = Line_append_char(@, edit.ch)]
      [] edit.edit = "InsertTab" ->
             [bar EXCEPT !.value = Line_append_char(@, TAB)]
      [] edit.edit = "DeleteBackward" ->
             [bar EXCEPT !.value = Line_delete_last(@)]
      [] OTHER -> bar

\* CommandBar::handle_move_command: its body is todo!(), which panics
CommandBar_handle_move_command_panics(bar, move) == TRUE

\* CommandBar::value
CommandBar_value(bar) == bar.value.string

\* CommandBar::set_prompt
CommandBar_set_prompt(bar, prompt) == [bar EXCEPT !.prompt = prompt]

\* CommandBar::clear_value
clear_value(bar) == [bar EXCEPT !.value = Line_default]

\* CommandBar::set_size
CommandBar_set_size(bar, size) == [bar EXCEPT !.size = size]

\* the byte length of value.get_visible_graphemes(value_start..value_end)
\* for value_end = value.width(): every fragment that starts at or after
\* column value_start is kept (as its replacement, if it has one), a
\* fragment that straddles value_start becomes the 3-byte ellipsis, and
\* the fragments before it are dropped
RECURSIVE VisibleTailLen(_, _, _)
VisibleTailLen(fragments, fragment_end, value_start) ==
    IF fragments = <<>> THEN 0
    ELSE LET fragment == fragments[Len(fragments)]
             fragment_start ==
                 SatSub(fragment_end,
                        IF fragment.rendered_width = "Half" THEN 1 ELSE 2)
         IN  IF fragment_end <= value_start THEN 0
             ELSE IF fragment_start < value_start THEN 3
             ELSE (IF fragment.replacement.is_some
                   THEN 1
                   ELSE StrByteLen(fragment.grapheme))
                  + VisibleTailLen(SubSeq(fragments, 1, Len(fragments) - 1),
                                   fragment_start, value_start)

\* CommandBar::draw: assert!(message.len() < self.size.width)
CommandBar_draw_panics(bar) ==
    LET area_for_value == SatSub(bar.size.width, PromptLen(bar.prompt))
        value_end == width(bar.value)
        value_start == SatSub(value_end, area_for_value)
        message_len == PromptLen(bar.prompt)
                       + VisibleTailLen(bar.value.fragments, value_end,
                                        value_start)
    IN  ~(message_len < bar.size.width)

\* ------------------------------------------------------------------------
\* Editor (editor.rs).  The operations below take and return the editor
\* as a record e of the fields that the variables hold.
\* ------------------------------------------------------------------------

QUIT_TIMES == 3

Text(t) == [text |-> t]
HelpMessage ==
    Text("HELP: <C-f> = find | <C-n> = search next | <C-s> = Save | <C-t> = Quit")
QuitWarning(n) ==
    [text |-> "WARNING!!! File has unsaved changes. Press Ctrl-T {} more times to quit.",
     times |-> n]
NoQueryMessage ==
    Text("Have no search query, please search for something first")

Editor ==
    [view |-> view, prompt_type |-> prompt_type, command_bar |-> command_bar,
     terminal_size |-> terminal_size, quit_times |-> quit_times,
     should_quit |-> should_quit, message |-> message, writes |-> writes]

EditorPanic(e) == [e EXCEPT !.view.panicked = TRUE]

\* Editor::update_message
update_message(e, new_message) == [e EXCEPT !.message = new_message]

\* Editor::handle_resize_command
handle_resize_command(e, size) ==
    [e EXCEPT
        !.terminal_size = size,
        !.view = set_size(@, Size(SatSub(size.height, 2), size.width)),
        !.command_bar = CommandBar_set_size(@, Size(1, size.width))]

\* Editor::reset_quit_times
reset_quit_times(e) ==
    IF e.quit_times > 0
    THEN update_message([e EXCEPT !.quit_times = 0], Text(""))
    ELSE e

\* handle_quit with the comparison off by one: quit_times is compared
\* before it is incremented
handle_quit_off_by_one(e) ==
    LET is_modified == e.view.buffer.dirty
    IN  IF ~is_modified \/ e.quit_times = QUIT_TIMES
        THEN [e EXCEPT !.should_quit = TRUE]
        ELSE [update_message(e, QuitWarning(QUIT_TIMES - e.quit_times - 1))
                 EXCEPT !.quit_times = @ + 1]

\* handle_quit with a warning that counts the refused request as well
handle_quit_counting_refused(e) ==
    LET is_modified == e.view.buffer.dirty
    IN  IF ~is_modified \/ Min(e.quit_times + 1, 255) = QUIT_TIMES
        THEN [e EXCEPT !.should_quit = TRUE]
        ELSE [update_message(e, QuitWarning(QUIT_TIMES - e.quit_times))
                 EXCEPT !.quit_times = @ + 1]

\* Editor::handle_quit
handle_quit(e) ==
    LET is_modified == e.view.buffer.dirty
    IN  IF ~is_modified \/ Min(e.quit_times + 1, 255) = QUIT_TIMES
        THEN [e EXCEPT !.should_quit = TRUE]
        ELSE [update_message(e, QuitWarning(QUIT_TIMES - e.quit_times - 1))
                 EXCEPT !.quit_times = @ + 1]

\* what the loop of Buffer::save_to_file writes: every line's string
\* (Display for Line) followed by the newline of writeln!
RECURSIVE WrittenText(_)
WrittenText(strings) ==
    IF strings = <<>> THEN <<>>
    ELSE Head(strings) \o <<LF>> \o WrittenText(Tail(strings))

\* Buffer::save_to_file: without a path nothing is written and the result
\* is Ok; with one the file is created and the lines are written.
\* write_ok is the outcome of File::create and writeln!; writes lists the
\* writes attempted, with the text that a successful write leaves in the
\* file.
save_to_file(buffer, file_info, write_ok) ==
    IF get_path(file_info).is_some
    THEN [ok |-> write_ok,
          writes |-> <<[path |-> get_path(file_info).val,
                        text |-> WrittenText([i \in 1..Len(buffer.lines) |->
                                                 buffer.lines[i].string]),
                        ok |-> write_ok]>>]
    ELSE [ok |-> TRUE, writes |-> <<>>]

\* Buffer::save
Buffer_save(buffer, write_ok) ==
    LET to_file == save_to_file(buffer, buffer.file_info, write_ok)
    IN  IF ~to_file.ok
        THEN [ok |-> FALSE, buffer |-> buffer, writes |-> to_file.writes]
        ELSE [ok |-> TRUE, buffer |-> [buffer EXCEPT !.dirty = FALSE],
              writes |-> to_file.writes]

\* a save_as that takes the new name before it writes
Buffer_save_as_renaming_first(buffer, filename, write_ok) ==
    LET renamed == [buffer EXCEPT !.file_info = FileInfo_from(filename)]
        to_file == save_to_file(renamed, renamed.file_info, write_ok)
    IN  IF ~to_file.ok
        THEN [ok |-> FALSE, buffer |-> renamed, writes |-> to_file.writes]
        ELSE [ok |-> TRUE, buffer |-> [renamed EXCEPT !.dirty = FALSE],
              writes |-> to_file.writes]

\* Buffer::save_as
Buffer_save_as(buffer, filename, write_ok) ==
    LET to_file == save_to_file(buffer, FileInfo_from(filename), write_ok)
    IN  IF ~to_file.ok
        THEN [ok |-> FALSE, buffer |-> buffer, writes |-> to_file.writes]
        ELSE [ok |-> TRUE,
              buffer |-> [buffer EXCEPT !.file_info = FileInfo_from(filename),
                                        !.dirty = FALSE],
              writes |-> to_file.writes]

\* Editor::save
save(e, filename, write_ok) ==
    LET result == IF filename.is_some
                  THEN Buffer_save_as(e.view.buffer, filename.val, write_ok)
                  ELSE Buffer_save(e.view.buffer, write_ok)
        msg == IF result.ok
               THEN Text("File saved successfully")
               ELSE Text("Error writing file!")
    IN  update_message([e EXCEPT !.view.buffer = result.buffer,
                                 !.writes = @ \o result.writes], msg)

\* Editor::set_prompt
set_prompt(e, new_prompt_type) ==
    [e EXCEPT
        !.command_bar =
            clear_value(CASE new_prompt_type = "Save" ->
                                 CommandBar_set_prompt(@, SavePrompt)
                          [] new_prompt_type = "Search" ->
                                 CommandBar_set_prompt(@, SearchPrompt)
                          [] OTHER -> @),
        !.prompt_type = new_prompt_type]

\* Editor::dismiss_prompt
dismiss_prompt(e) == [e EXCEPT !.prompt_type = "None"]

\* a handle_save that writes without asking for a name
handle_save_without_prompt(e, write_ok) == save(e, None, write_ok)

\* Editor::handle_save
handle_save(e, write_ok) ==
    IF Buffer_is_file_loaded(e.view.buffer)
    THEN save(e, None, write_ok)
    ELSE set_prompt(e, "Save")

\* Editor::handle_search
handle_search(e) ==
    update_message(
        [set_prompt(e, "Search") EXCEPT !.view = enter_search(@)],
        Text(""))

\* View::search_from of editor/view.rs
search_from(v, from) ==
    IF ~v.search_info.is_some THEN v
    ELSE LET query == v.search_info.val.query
         IN  IF ~query.is_some \/ Line_is_empty(query.val) THEN v
             ELSE IF Buffer_search_forward_panics(v.buffer, query.val.string,
                                                  from)
             THEN Panic(v)
             ELSE LET location == Buffer_search_forward(v.buffer,
                                      query.val.string, from)
                  IN  IF location.is_some
                      THEN scroll_text_location_into_view(
                               [v EXCEPT !.text_location = location.val])
                      ELSE v

\* View::search_next of editor/view.rs, the one that Editor::
\* handle_search_next calls: false when there is no search session
view_search_next(v) ==
    IF v.search_info.is_some
    THEN LET query == v.search_info.val.query
             step_right == Max(1, IF query.is_some
                                  THEN grapheme_count(query.val) ELSE 0)
         IN  [success |-> TRUE,
              view |-> search_from(v,
                           Location(v.text_location.line_idx,
                                    v.text_location.grapheme_idx + step_right))]
    ELSE [success |-> FALSE, view |-> v]

\* handle_search_next that reports nothing
handle_search_next_silent(e) == [e EXCEPT !.view = view_search_next(@).view]

\* Editor::handle_search_next
handle_search_next(e) ==
    LET result == view_search_next(e.view)
        searched == [e EXCEPT !.view = result.view]
    IN  IF ~result.success
        THEN update_message(searched, NoQueryMessage)
        ELSE searched

\* View::exit_search
exit_search(v) == [v EXCEPT !.search_info = None]

\* Editor::process_command_no_prompt
process_command_no_prompt(e, cmd, write_ok) ==
    IF cmd.type = "System" /\ cmd.system = "Quit" THEN handle_quit(e)
    ELSE LET r == reset_quit_times(e)
         IN  CASE cmd.type = "Move" ->
                      [r EXCEPT !.view = handle_move_command(@, cmd.move)]
               [] cmd.type = "Edit" ->
                      [r EXCEPT !.view = handle_edit_command(@, cmd)]
               [] cmd.type = "System" /\ cmd.system = "Save" ->
                      handle_save(r, write_ok)
               [] cmd.type = "System" /\ cmd.system = "Search" ->
                      handle_search(r)
               [] cmd.type = "System" /\ cmd.system = "SearchNext" ->
                      handle_search_next(r)
               [] OTHER -> r

\* a save prompt whose Enter saves and leaves the prompt open
process_command_during_save_staying(e, cmd, write_ok) ==
    IF cmd.type = "Edit" /\ cmd.edit = "InsertNewline"
    THEN save(e, Some(CommandBar_value(e.command_bar)), write_ok)
    ELSE e

\* Editor::process_command_during_save
process_command_during_save(e, cmd, write_ok) ==
    CASE cmd.type = "System" /\ cmd.system = "Dismiss" ->
             update_message(dismiss_prompt(e), Text("Save aborted"))
      [] cmd.type = "Move" ->
             IF CommandBar_handle_move_command_panics(e.command_bar, cmd.move)
             THEN EditorPanic(e)
             ELSE e
      [] cmd.type = "Edit" /\ cmd.edit = "InsertNewline" ->
             dismiss_prompt(save(e, Some(CommandBar_value(e.command_bar)),
                                 write_ok))
      [] cmd.type = "Edit" /\ cmd.edit # "InsertNewline" ->
             IF CommandBar_handle_edit_command_panics(e.command_bar, cmd)
             THEN EditorPanic(e)
             ELSE [e EXCEPT !.command_bar =
                      CommandBar_handle_edit_command(@, cmd)]
      [] OTHER -> e

\* process_command_during_search in which Enter dismisses the search as
\* Dismiss does
process_command_during_search_restoring(e, cmd) ==
    CASE cmd.type = "System" /\ cmd.system = "Dismiss" ->
             update_message(
                 [dismiss_prompt(e) EXCEPT !.view = dismiss_search(@)],
                 Text("Search aborted"))
      [] cmd.type = "Move" ->
             IF CommandBar_handle_move_command_panics(e.command_bar, cmd.move)
             THEN EditorPanic(e)
             ELSE e
      [] cmd.type = "Edit" /\ cmd.edit = "InsertNewline" ->
             [dismiss_prompt(e) EXCEPT !.view = dismiss_search(@)]
      [] cmd.type = "Edit" /\ cmd.edit # "InsertNewline" ->
             IF CommandBar_handle_edit_command_panics(e.command_bar, cmd)
             THEN EditorPanic(e)
             ELSE LET edited == [e EXCEPT !.command_bar =
                                    CommandBar_handle_edit_command(@, cmd)]
                      query == CommandBar_value(edited.command_bar)
                  IN  [edited EXCEPT !.view = search(@, query)]
      [] OTHER -> e

\* Editor::process_command_during_search
process_command_during_search(e, cmd) ==
    CASE cmd.type = "System" /\ cmd.system = "Dismiss" ->
             update_message(
                 [dismiss_prompt(e) EXCEPT !.view = dismiss_search(@)],
                 Text("Search aborted"))
      [] cmd.type = "Move" ->
             IF CommandBar_handle_move_command_panics(e.command_bar, cmd.move)
             THEN EditorPanic(e)
             ELSE e
      [] cmd.type = "Edit" /\ cmd.edit = "InsertNewline" ->
             [dismiss_prompt(e) EXCEPT !.view = exit_search(@)]
      [] cmd.type = "Edit" /\ cmd.edit # "InsertNewline" ->
             IF CommandBar_handle_edit_command_panics(e.command_bar, cmd)
             THEN EditorPanic(e)
             ELSE LET edited == [e EXCEPT !.command_bar =
                                    CommandBar_handle_edit_command(@, cmd)]
                      query == CommandBar_value(edited.command_bar)
                  IN  [edited EXCEPT !.view = search(@, query)]
      [] OTHER -> e

\* process_command in which a quit request is handled in every mode
process_command_quitting_in_prompts(e, cmd, write_ok) ==
    LET resized == IF cmd.type = "System" /\ cmd.system = "Resize"
                   THEN handle_resize_command(e, cmd.size)
                   ELSE e
    IN  CASE resized.prompt_type = "None"
                 \/ (cmd.type = "System" /\ cmd.system = "Quit") ->
                 process_command_no_prompt(resized, cmd, write_ok)
          [] resized.prompt_type = "Save" ->
                 process_command_during_save(resized, cmd, write_ok)
          [] resized.prompt_type = "Search" ->
                 process_command_during_search(resized, cmd)

\* Editor::process_command
process_command(e, cmd, write_ok) ==
    LET resized == IF cmd.type = "System" /\ cmd.system = "Resize"
                   THEN handle_resize_command(e, cmd.size)
                   ELSE e
    IN  CASE resized.prompt_type = "None" ->
                 process_command_no_prompt(resized, cmd, write_ok)
          [] resized.prompt_type = "Save" ->
                 process_command_during_save(resized, cmd, write_ok)
          [] resized.prompt_type = "Search" ->
                 process_command_during_search(resized, cmd)

\* Editor::refresh_screen: nothing is drawn on an empty terminal; in a
\* prompt the command bar is rendered, and CommandBar::draw asserts
refresh_screen(e) ==
    IF e.view.panicked THEN e
    ELSE IF e.terminal_size.height = 0 \/ e.terminal_size.width = 0 THEN e
    ELSE IF e.prompt_type # "None" /\ CommandBar_draw_panics(e.command_bar)
    THEN EditorPanic(e)
    ELSE e

\* Editor::run loops until should_quit is set; a panic ends the process
Running == ~should_quit /\ ~view.panicked

\* one turn of Editor::run: the event is evaluated, then the screen is
\* refreshed before the next event is read
Turn(cmd, write_ok) ==
    /\ \E e \in {refresh_screen(process_command(
                       [Editor EXCEPT !.writes = <<>>], cmd, write_ok))} :
           /\ view' = e.view
           /\ prompt_type' = e.prompt_type
           /\ command_bar' = e.command_bar
           /\ terminal_size' = e.terminal_size
           /\ quit_times' = e.quit_times
           /\ should_quit' = e.should_quit
           /\ message' = e.message
           /\ writes' = e.writes
    /\ UNCHANGED debug_assertions

\* ------------------------------------------------------------------------
\* The commands (editor/command/*.rs) and the inputs of the model
\* ------------------------------------------------------------------------

MoveCommand(m) == [type |-> "Move", move |-> m]
InsertCommand(ch) == [type |-> "Edit", edit |-> "Insert", ch |-> ch]
EditCommand(kind) == [type |-> "Edit", edit |-> kind]
SystemCommand(kind) == [type |-> "System", system |-> kind]
ResizeCommand(size) == [type |-> "System", system |-> "Resize", size |-> size]

\* the sizes that Terminal::size and Event::Resize deliver to the editor:
\* terminals wide enough for a prompt that leave the view 1..MaxHeight rows
TerminalSizes == {Size(h + 2, 12) : h \in 1..MaxHeight}

\* the file named on the command line, and what read_to_string gives
FileName == <<"a">>
FileContents == {<<"W", LF, "a", LF>>}

\* the guards that keep the document and the prompt value within the
\* bounds of the model
RECURSIVE DocChars(_)
DocChars(lines) ==
    IF lines = <<>> THEN 0
    ELSE Len(Head(lines).string) + DocChars(Tail(lines))

CanGrowDoc == DocChars(view.buffer.lines) < MaxDocChars
CanAddLine == get_height(view.buffer) < MaxLines
CanGrowValue == Len(command_bar.value.string) < MaxValueLen

\* str::lines: the text is cut behind every line feed; the line feed,
\* and a carriage return right before it, are not part of the line; what
\* follows the last line feed is a line as it is, unless it is empty
RECURSIVE str_lines(_)
str_lines(s) ==
    IF s = <<>> THEN <<>>
    ELSE IF \E i \in 1..Len(s) : s[i] = LF
    THEN LET end == CHOOSE i \in 1..Len(s) :
                        s[i] = LF /\ \A j \in 1..(i - 1) : s[j] # LF
             line == IF end > 1 /\ s[end - 1] = CR
                     THEN SubSeq(s, 1, end - 2)
                     ELSE SubSeq(s, 1, end - 1)
         IN  <<line>> \o str_lines(SubSeq(s, end + 1, Len(s)))
    ELSE <<s>>

\* a load that opens an unreadable file as an empty, clean buffer
Buffer_load_without_line(filename, read) ==
    IF read.is_some
    THEN [file_info |-> FileInfo_from(filename),
          lines |-> [i \in 1..Len(str_lines(read.val)) |->
                        Line_from(str_lines(read.val)[i])],
          dirty |-> FALSE]
    ELSE [file_info |-> FileInfo_from(filename), lines |-> <<>>,
          dirty |-> FALSE]

\* Buffer::load; read is what read_to_string gives: the text of the file,
\* or None when the file cannot be read
Buffer_load(filename, read) ==
    IF read.is_some
    THEN [file_info |-> FileInfo_from(filename),
          lines |-> [i \in 1..Len(str_lines(read.val)) |->
                        Line_from(str_lines(read.val)[i])],
          dirty |-> FALSE]
    ELSE [file_info |-> FileInfo_from(filename),
          lines |-> <<Line_default>>,
          dirty |-> TRUE]

\* View::load
View_load(v, filename, read) == [v EXCEPT !.buffer = Buffer_load(filename, read)]

\* Editor::new: the terminal size is read, the file named on the command
\* line is loaded, the help message is shown
Editor_new(size, arg, read) ==
    LET e0 == [view |-> View_default, prompt_type |-> "None",
               command_bar |-> CommandBar_default,
               terminal_size |-> Size(0, 0), quit_times |-> 0,
               should_quit |-> FALSE, message |-> Text(""), writes |-> <<>>]
        e1 == handle_resize_command(e0, size)
        e2 == IF arg.is_some
              THEN [e1 EXCEPT !.view = View_load(@, arg.val, read)]
              ELSE e1
    IN  update_message(e2, HelpMessage)

\* the variables hold the editor e
StartsAs(e) ==
    /\ view = e.view
    /\ prompt_type = e.prompt_type
    /\ command_bar = e.command_bar
    /\ terminal_size = e.terminal_size
    /\ quit_times = e.quit_times
    /\ should_quit = e.should_quit
    /\ message = e.message
    /\ writes = e.writes

Init ==
    /\ debug_assertions \in BOOLEAN
    /\ \E size \in TerminalSizes :
       \E arg \in {None, Some(FileName)} :
       \E read \in {None} \cup {Some(c) : c \in FileContents} :
          StartsAs(Editor_new(size, arg, read))

\* the document is edited in no prompt, the prompt value in a prompt
GrowsWithin(cmd) ==
    IF prompt_type = "None"
    THEN CASE cmd.edit \in {"Insert", "InsertTab"} ->
                  CanGrowDoc /\ (~HasCurrentLine(view) => CanAddLine)
           [] cmd.edit = "InsertNewline" -> CanAddLine
           [] OTHER -> TRUE
    ELSE cmd.edit \in {"Insert", "InsertTab"} => CanGrowValue

Move == Running /\ \E m \in Moves : Turn(MoveCommand(m), TRUE)

Insert ==
    /\ Running
    /\ \E ch \in KeyChars :
          GrowsWithin(InsertCommand(ch)) /\ Turn(InsertCommand(ch), TRUE)

InsertNewline ==
    /\ Running
    /\ GrowsWithin(EditCommand("InsertNewline"))
    /\ \E write_ok \in BOOLEAN : Turn(EditCommand("InsertNewline"), write_ok)

Delete == Running /\ Turn(EditCommand("Delete"), TRUE)

DeleteBackward == Running /\ Turn(EditCommand("DeleteBackward"), TRUE)

Save == Running /\ \E write_ok \in BOOLEAN : Turn(SystemCommand("Save"), write_ok)

Search == Running /\ Turn(SystemCommand("Search"), TRUE)

SearchNext == Running /\ Turn(SystemCommand("SearchNext"), TRUE)

Dismiss == Running /\ Turn(SystemCommand("Dismiss"), TRUE)

Resize == Running /\ \E size \in TerminalSizes : Turn(ResizeCommand(size), TRUE)

Quit == Running /\ Turn(SystemCommand("Quit"), TRUE)

Next ==
    \/ Move
    \/ Insert
    \/ InsertNewline
    \/ Delete
    \/ DeleteBackward
    \/ Save
    \/ Search
    \/ SearchNext
    \/ Dismiss
    \/ Resize
    \/ Quit

Spec == Init /\ [][Next]_vars

\* ------------------------------------------------------------------------
\* The view under editing in narrow terminals: the editor is started
\* without a file in a terminal of 0..MaxWidth columns, and the document
\* is edited with a letter, a combining mark and tabs.
\* ------------------------------------------------------------------------

ViewChars == {"a", "s"}
NarrowTerminalSizes ==
    {Size(h + 2, w) : h \in 0..MaxHeight, w \in 0..MaxWidth}

InitView ==
    /\ debug_assertions \in BOOLEAN
    /\ \E size \in NarrowTerminalSizes : StartsAs(Editor_new(size, None, None))

InsertChar ==
    /\ Running
    /\ \E ch \in ViewChars :
          GrowsWithin(InsertCommand(ch)) /\ Turn(InsertCommand(ch), TRUE)

InsertTab ==
    /\ Running
    /\ GrowsWithin(EditCommand("InsertTab"))
    /\ Turn(EditCommand("InsertTab"), TRUE)

ResizeNarrow ==
    Running /\ \E size \in NarrowTerminalSizes : Turn(ResizeCommand(size), TRUE)

NextView ==
    \/ Move
    \/ InsertChar
    \/ InsertTab
    \/ InsertNewline
    \/ Delete
    \/ DeleteBackward
    \/ ResizeNarrow

SpecView == InitView /\ [][NextView]_vars

\* ------------------------------------------------------------------------
\* The search session of the view (editor/ui/view/mod.rs, region search):
\* a view that shows one of the documents below is moved, resized and
\* searched through the operations of View.
\* ------------------------------------------------------------------------

SearchDocs == { << <<"a", "W", "a">> >>,
                << <<"a", "W">>, <<"a">> >>,
                << <<"a", "a", "a">>, <<>> >> }
Queries == { <<>>, <<"a">>, <<"W">>, <<"W", "a">>, <<"a", "a">> }
SearchSizes == {Size(h, w) : h \in 1..MaxHeight, w \in {MaxWidth, 12}}

InitSearch ==
    /\ debug_assertions \in BOOLEAN
    /\ \E size \in SearchSizes : \E doc \in SearchDocs :
          StartsAs([Editor_new(Size(size.height + 2, size.width),
                               Some(FileName), Some(WrittenText(doc)))
                       EXCEPT !.message = Text("")])

\* the view becomes v; the rest of the editor is left alone
Becomes(v) ==
    /\ view' = v
    /\ UNCHANGED <<prompt_type, command_bar, terminal_size, quit_times,
                   should_quit, message, writes, debug_assertions>>

MoveCursor ==
    /\ ~view.panicked
    /\ ~view.search_info.is_some
    /\ \E m \in Moves : Becomes(handle_move_command(view, m))

EnterSearch ==
    /\ ~view.panicked
    /\ ~view.search_info.is_some
    /\ Becomes(enter_search(view))

UpdateQuery ==
    /\ ~view.panicked
    /\ view.search_info.is_some
    /\ \E query \in Queries : Becomes(search(view, query))

FindNext ==
    /\ ~view.panicked
    /\ view.search_info.is_some
    /\ Becomes(search_next(view))

DismissSearch ==
    /\ ~view.panicked
    /\ Becomes(dismiss_search(view))

ExitSearch ==
    /\ ~view.panicked
    /\ view.search_info.is_some
    /\ Becomes(exit_search(view))

ResizeView ==
    /\ ~view.panicked
    /\ \E size \in SearchSizes : Becomes(set_size(view, size))

NextSearch ==
    \/ MoveCursor
    \/ EnterSearch
    \/ UpdateQuery
    \/ FindNext
    \/ DismissSearch
    \/ ExitSearch
    \/ ResizeView

SpecSearch == InitSearch /\ [][NextSearch]_vars

\* ------------------------------------------------------------------------
\* Files: the editor is started on a file, the document is edited and
\* saved, and the editor is started again on what was written.
\* ------------------------------------------------------------------------

\* the texts read_to_string gives: an empty file, a last line without a
\* line feed, LF and CR LF line ends, a carriage return not followed by a
\* line feed, an empty line, a wide character
FileTexts == { <<>>,
               <<"a">>,
               <<"a", LF>>,
               <<"a", CR, LF>>,
               <<"a", CR>>,
               <<LF>>,
               <<"W", LF, "a">> }

InitFile ==
    /\ debug_assertions \in BOOLEAN
    /\ \E read \in {None} \cup {Some(text) : text \in FileTexts} :
          StartsAs(Editor_new(Size(MaxHeight + 2, 12), Some(FileName), read))

\* the editor is started again on the file that the last command has
\* written
Reopen ==
    /\ Running
    /\ Len(writes) = 1
    /\ writes[1].ok
    /\ \E e \in {Editor_new(terminal_size, Some(writes[1].path),
                            Some(writes[1].text))} :
           /\ view' = e.view
           /\ prompt_type' = e.prompt_type
           /\ command_bar' = e.command_bar
           /\ terminal_size' = e.terminal_size
           /\ quit_times' = e.quit_times
           /\ should_quit' = e.should_quit
           /\ message' = e.message
           /\ writes' = e.writes
    /\ UNCHANGED debug_assertions

NextFile ==
    \/ Move
    \/ Insert
    \/ InsertNewline
    \/ Delete
    \/ DeleteBackward
    \/ Save
    \/ Reopen

SpecFile == InitFile /\ [][NextFile]_vars

\* ------------------------------------------------------------------------
\* A line with a wide character: the editor is started on a file of one
\* line, a wide character and two letters, and the line is split, joined
\* and shortened.
\* ------------------------------------------------------------------------

WideText == <<"W", "a", "a", LF>>

InitWide ==
    /\ debug_assertions \in BOOLEAN
    /\ \E size \in TerminalSizes :
          StartsAs(Editor_new(size, Some(FileName), Some(WideText)))

NextWide ==
    \/ Move
    \/ InsertNewline
    \/ Delete
    \/ DeleteBackward

SpecWide == InitWide /\ [][NextWide]_vars

\* ------------------------------------------------------------------------
\* Properties
\* ------------------------------------------------------------------------

\* the cursor's rendered position lies in the window of the view
CursorInWindow(v) ==
    \E p \in {text_location_to_position(v)} :
        /\ v.scroll_offset.row <= p.row
        /\ p.row < v.scroll_offset.row + v.size.height
        /\ v.scroll_offset.col <= p.col
        /\ p.col < v.scroll_offset.col + v.size.width

\* C1: scroll invariant.  After any sequence of movement, edit, search,
\* dismiss and resize commands, whenever the view's height and width are
\* both positive, the
\* cursor's rendered (row, col) satisfies offset.row <= row < offset.row +
\* height and offset.col <= col < offset.col + width.
C1_ScrollInvariant ==
    (view.size.height > 0 /\ view.size.width > 0) => CursorInWindow(view)

\* the editor after one more turn of Editor::run that reads cmd
After(e, cmd, write_ok) ==
    refresh_screen(process_command([e EXCEPT !.writes = <<>>], cmd, write_ok))

AfterQuit(e) == After(e, SystemCommand("Quit"), TRUE)

\* every command but Quit
NonQuitCommands ==
    {MoveCommand(m) : m \in Moves}
    \cup {InsertCommand(ch) : ch \in KeyChars}
    \cup {EditCommand(k) :
             k \in {"InsertTab", "InsertNewline", "Delete", "DeleteBackward"}}
    \cup {SystemCommand(k) : k \in {"Save", "Search", "SearchNext", "Dismiss"}}
    \cup {ResizeCommand(size) : size \in TerminalSizes}

\* of three consecutive quit requests made in e, the third is the one
\* that is accepted
ThirdQuitIsAccepted(e) ==
    /\ ~AfterQuit(e).should_quit
    /\ ~AfterQuit(AfterQuit(e)).should_quit
    /\ AfterQuit(AfterQuit(AfterQuit(e))).should_quit

NormalAndRunning(e) ==
    e.prompt_type = "None" /\ ~e.should_quit /\ ~e.view.panicked

\* C2: quit confirmation.  In Normal mode with a modified document the
\* editor accepts quit only on the 3rd (QUIT_TIMES) consecutive quit
\* request: after the start of the editor and after any non-quit command,
\* whatever the number of quit requests made before it, the next two quit
\* requests are refused and the third is accepted; with an unmodified
\* document the first quit request is accepted.
C2_QuitConfirmation ==
    NormalAndRunning(Editor) =>
        /\ ~view.buffer.dirty => AfterQuit(Editor).should_quit
        /\ (view.buffer.dirty /\ message = HelpMessage) =>
               ThirdQuitIsAccepted(Editor)
        /\ \A cmd \in NonQuitCommands : \A write_ok \in BOOLEAN :
               \E e \in {After(Editor, cmd, write_ok)} :
                   (NormalAndRunning(e) /\ e.view.buffer.dirty) =>
                       ThirdQuitIsAccepted(e)

\* a modified document whose third consecutive quit request was accepted
C2_Witness ==
    /\ should_quit
    /\ view.buffer.dirty
    /\ quit_times = QUIT_TIMES - 1

\* the cursor is at the end of a line of the buffer
AtEndOfLine(v) ==
    HasCurrentLine(v) /\ v.text_location.grapheme_idx = CurrentLineLen(v)

\* C3: Right at end of line.  With the cursor at grapheme_idx ==
\* grapheme_count of its line, one Right command moves the cursor to
\* (line_idx+1, 0) if a next line exists, whatever the length of the next
\* line, and otherwise leaves the cursor where it is.
C3_RightAtEndOfLine ==
    (NormalAndRunning(Editor) /\ AtEndOfLine(view)) =>
        \E e \in {After(Editor, MoveCommand("Right"), TRUE)} :
            e.view.text_location =
                IF view.text_location.line_idx + 1 < get_height(view.buffer)
                THEN Location(view.text_location.line_idx + 1, 0)
                ELSE view.text_location

\* every command that Editor::evaluate_event can deliver
Commands == NonQuitCommands \cup {SystemCommand("Quit")}

InSearchPrompt(e) ==
    e.prompt_type = "Search" /\ ~e.should_quit /\ ~e.view.panicked

AfterDismiss(e) == After(e, SystemCommand("Dismiss"), TRUE)
AfterEnter(e) == After(e, EditCommand("InsertNewline"), TRUE)

\* C4: dismissing a search restores the pre-search cursor.  A Search
\* request in Normal mode records the cursor as previous_location; no
\* command that leaves the editor in SearchPrompt (query edits, resizes)
\* changes that record or the buffer; and a Dismiss in SearchPrompt
\* returns to Normal mode with text_location equal to the recorded
\* location, the search session removed, the buffer unchanged, and the
\* restored cursor inside the window of the current size.
C4_DismissRestoresCursor ==
    /\ NormalAndRunning(Editor) =>
           \E e \in {After(Editor, SystemCommand("Search"), TRUE)} :
               /\ InSearchPrompt(e)
               /\ e.view.search_info.is_some
               /\ e.view.search_info.val.previous_location = view.text_location
               /\ e.view.buffer = view.buffer
    /\ InSearchPrompt(Editor) =>
           /\ view.search_info.is_some
           /\ \A cmd \in Commands :
                  \E e \in {After(Editor, cmd, TRUE)} :
                      InSearchPrompt(e) =>
                          /\ e.view.search_info.is_some
                          /\ e.view.search_info.val.previous_location =
                                 view.search_info.val.previous_location
                          /\ e.view.buffer = view.buffer
           /\ \E e \in {AfterDismiss(Editor)} :
                  /\ NormalAndRunning(e)
                  /\ e.view.text_location =
                         view.search_info.val.previous_location
                  /\ e.view.search_info = None
                  /\ e.view.buffer = view.buffer
                  /\ e.view.size = view.size
                  /\ CursorInWindow(e.view)

\* a search prompt in which the cursor sits on a match away from the
\* pre-search location, and Dismiss moves it back and scrolls
C4_Witness ==
    /\ InSearchPrompt(Editor)
    /\ view.text_location # view.search_info.val.previous_location
    /\ AfterDismiss(Editor).view.text_location # view.text_location
    /\ AfterDismiss(Editor).view.scroll_offset # view.scroll_offset

\* C5: confirming a search keeps the match.  Enter in SearchPrompt returns
\* to Normal mode and leaves text_location where the search put it (it is
\* not reset to previous_location); buffer content and dirty flag are
\* unchanged.
C5_ConfirmKeepsMatch ==
    InSearchPrompt(Editor) =>
        \E e \in {AfterEnter(Editor)} :
            /\ NormalAndRunning(e)
            /\ e.view.text_location = view.text_location
            /\ e.view.buffer = view.buffer

\* a search prompt in which the cursor sits on a match away from the
\* pre-search location, and Enter leaves it there
C5_Witness ==
    /\ InSearchPrompt(Editor)
    /\ view.search_info.val.query.is_some
    /\ ~Line_is_empty(view.search_info.val.query.val)
    /\ view.text_location # view.search_info.val.previous_location
    /\ AfterEnter(Editor).prompt_type = "None"
    /\ AfterEnter(Editor).view.text_location = view.text_location

AfterSearchNext(e) == After(e, SystemCommand("SearchNext"), TRUE)

\* there is nothing to search for: no search session, or a session whose
\* query is absent or empty
NoSearchQuery(v) ==
    \/ ~v.search_info.is_some
    \/ ~v.search_info.val.query.is_some
    \/ Line_is_empty(v.search_info.val.query.val)

\* SearchNext changed neither the view nor the mode, and nothing panicked
SearchNextIsNoOp(e) ==
    /\ e.view = view
    /\ e.prompt_type = prompt_type
    /\ e.command_bar = command_bar
    /\ ~e.should_quit

RECURSIVE GraphemesFrom(_, _)
GraphemesFrom(fragments, grapheme_idx) ==
    IF fragments = <<>> THEN <<>>
    ELSE IF grapheme_idx > 0
    THEN GraphemesFrom(Tail(fragments), grapheme_idx - 1)
    ELSE Head(fragments).grapheme \o GraphemesFrom(Tail(fragments), 0)

\* query occurs in the line at grapheme grapheme_idx
OccursAt(line, query, grapheme_idx) ==
    /\ grapheme_idx < grapheme_count(line)
    /\ Occurs(GraphemesFrom(line.fragments, grapheme_idx), query, 0)

\* the grapheme count of the longest line
LongestLine(buffer) ==
    CHOOSE n \in {0} \cup {grapheme_count(buffer.lines[i]) :
                              i \in 1..get_height(buffer)} :
        \A i \in 1..get_height(buffer) : grapheme_count(buffer.lines[i]) <= n

\* lexicographic order of locations
LocLeq(a, b) ==
    \/ a.line_idx < b.line_idx
    \/ a.line_idx = b.line_idx /\ a.grapheme_idx <= b.grapheme_idx

\* the locations at or after from at which query occurs inside one line
OccurrencesFrom(buffer, query, from) ==
    {loc \in {Location(l, g) : l \in 0..(get_height(buffer) - 1),
                               g \in 0..LongestLine(buffer)} :
        /\ LocLeq(from, loc)
        /\ OccursAt(buffer.lines[loc.line_idx + 1], query, loc.grapheme_idx)}

\* the least of them, if any
FirstOccurrenceFrom(buffer, query, from) ==
    IF OccurrencesFrom(buffer, query, from) = {} THEN None
    ELSE Some(CHOOSE loc \in OccurrencesFrom(buffer, query, from) :
                 \A other \in OccurrencesFrom(buffer, query, from) :
                     LocLeq(loc, other))

\* the locations a search can be started from
FromLocations(buffer) ==
    {Location(l, g) : l \in 0..get_height(buffer),
                      g \in 0..(LongestLine(buffer) + 1)}

\* C10: Buffer.search_forward(query, from) returns the least location
\* (line_idx, grapheme_idx) >= from in lexicographic order at which query
\* occurs inside one line, and None when no such occurrence exists.
C10_SearchForwardLeast ==
    \A query \in Queries \ {<<>>} : \A from \in FromLocations(view.buffer) :
        /\ ~Buffer_search_forward_panics(view.buffer, query, from)
        /\ Buffer_search_forward(view.buffer, query, from) =
               FirstOccurrenceFrom(view.buffer, query, from)

\* a search session with a non-empty query
HasQuery(v) ==
    /\ ~v.panicked
    /\ v.search_info.is_some
    /\ v.search_info.val.query.is_some
    /\ ~Line_is_empty(v.search_info.val.query.val)

\* the anchor of search_next: max(1, query.grapheme_count()) graphemes to
\* the right of the cursor
NextAnchor(v) ==
    Location(v.text_location.line_idx,
             v.text_location.grapheme_idx
             + Max(1, grapheme_count(v.search_info.val.query.val)))

\* C7: find_next never returns the same match.  With a non-empty query,
\* search_next searches forward from (line_idx, grapheme_idx + max(1,
\* query.grapheme_count())); if a match is found the new cursor is strictly
\* greater than the old cursor and is the first occurrence at or after that
\* anchor, and if none is found the cursor is unchanged (no wrap-around).
C7_FindNextFirstOccurrence ==
    HasQuery(view) =>
        \E v \in {search_next(view)} :
        \E first \in {FirstOccurrenceFrom(view.buffer,
                           view.search_info.val.query.val.string,
                           NextAnchor(view))} :
            /\ ~v.panicked
            /\ v.text_location =
                   IF first.is_some THEN first.val ELSE view.text_location
            /\ v.text_location # view.text_location =>
                   /\ LocLeq(view.text_location, v.text_location)
                   /\ OccursAt(v.buffer.lines[v.text_location.line_idx + 1],
                               view.search_info.val.query.val.string,
                               v.text_location.grapheme_idx)

\* the forward search of the buffer finds nothing at or after from
FindsNothing(buffer, query, from) ==
    /\ ~Buffer_search_forward_panics(buffer, query, from)
    /\ ~Buffer_search_forward(buffer, query, from).is_some

\* C8: a search that finds no match leaves text_location and
\* scroll_offset exactly as they were: both for a change of the query
\* (searched from the cursor) and for find_next (searched from its anchor).
C8_NoMatchLeavesCursor ==
    (view.search_info.is_some /\ ~view.panicked) =>
        /\ \A query \in Queries :
               (query = <<>> \/ FindsNothing(view.buffer, query,
                                             view.text_location)) =>
                   \E v \in {search(view, query)} :
                       /\ ~v.panicked
                       /\ v.text_location = view.text_location
                       /\ v.scroll_offset = view.scroll_offset
        /\ (HasQuery(view)
            /\ FindsNothing(view.buffer, view.search_info.val.query.val.string,
                            NextAnchor(view))) =>
               \E v \in {search_next(view)} :
                   /\ ~v.panicked
                   /\ v.text_location = view.text_location
                   /\ v.scroll_offset = view.scroll_offset

\* a session whose cursor sits on a match found earlier, after which
\* find_next finds nothing, and a query that matches nowhere from the cursor
C8_Witness ==
    /\ HasQuery(view)
    /\ view.text_location # view.search_info.val.previous_location
    /\ OccursAt(CurrentLine(view), view.search_info.val.query.val.string,
                view.text_location.grapheme_idx)
    /\ FindsNothing(view.buffer, view.search_info.val.query.val.string,
                    NextAnchor(view))
    /\ \E query \in Queries \ {<<>>} :
           FindsNothing(view.buffer, query, view.text_location)

\* the cursor after a forward search of the buffer from from: the match,
\* or the cursor as it is when nothing is found
CursorAfterSearchFrom(v, query, from) ==
    IF Buffer_search_forward(v.buffer, query, from).is_some
    THEN Buffer_search_forward(v.buffer, query, from).val
    ELSE v.text_location

\* C6 as stated: each change of the query replaces the live query and
\* re-runs the forward search starting at the location the cursor had when
\* the search session was entered (not at the location of the previous
\* match), so a match lying between the pre-search location and the
\* previous match is found after the query is changed.
C6_SearchRestartsAtOrigin ==
    (view.search_info.is_some /\ ~view.panicked) =>
        \A query \in Queries \ {<<>>} :
            \E v \in {search(view, query)} :
                /\ v.search_info.val.query = Some(Line_from(query))
                /\ v.text_location =
                       CursorAfterSearchFrom(view, query,
                           view.search_info.val.previous_location)

\* C6 amended: each change of the query replaces the live query and
\* re-runs the forward search starting at the cursor, which is the
\* pre-search location only until a match is found and the previous match
\* afterwards; previous_location is kept, and a match lying before the
\* cursor is not found.
C6_SearchContinuesAtCursor ==
    (view.search_info.is_some /\ ~view.panicked) =>
        \A query \in Queries \ {<<>>} :
            \E v \in {search(view, query)} :
                ~v.panicked =>
                    /\ v.search_info.val.query = Some(Line_from(query))
                    /\ v.search_info.val.previous_location =
                           view.search_info.val.previous_location
                    /\ v.text_location =
                           CursorAfterSearchFrom(view, query, view.text_location)
                    /\ LocLeq(view.text_location, v.text_location)

\* a session whose cursor has left the pre-search location for a match,
\* and a new query that occurs between the two: the search for it from the
\* pre-search location and the search that the view makes end differently
C6_Witness ==
    /\ view.search_info.is_some
    /\ ~view.panicked
    /\ view.search_info.val.query.is_some
    /\ view.text_location # view.search_info.val.previous_location
    /\ \E query \in Queries \ {<<>>} :
           /\ ~search(view, query).panicked
           /\ search(view, query).search_info.val.query.val.string = query
           /\ search(view, query).text_location #
                  CursorAfterSearchFrom(view, query,
                      view.search_info.val.previous_location)

\* the first grapheme at or after from_grapheme_idx at which query occurs
\* in the line, if any
FirstInLineFrom(line, query, from_grapheme_idx) ==
    IF \E g \in from_grapheme_idx..(grapheme_count(line) - 1) :
           OccursAt(line, query, g)
    THEN Some(CHOOSE g \in from_grapheme_idx..(grapheme_count(line) - 1) :
                 /\ OccursAt(line, query, g)
                 /\ \A h \in from_grapheme_idx..(g - 1) :
                        ~OccursAt(line, query, h))
    ELSE None

\* C11: Line.search_forward(query, from) returns the grapheme index,
\* counted from the start of the line, of the first occurrence of query
\* starting at or after grapheme from; on lines mixing one-byte and
\* multi-byte graphemes too the result is the grapheme where the
\* occurrence starts and is less than grapheme_count; the result is None
\* on an empty line and when from >= grapheme_count.
C11_LineSearchForward ==
    \A i \in 1..get_height(view.buffer) : \A query \in Queries \ {<<>>} :
        \A from \in 0..(grapheme_count(view.buffer.lines[i]) + 1) :
            \E r \in {Line_search_forward(view.buffer.lines[i], query, from)} :
                /\ ~Line_search_forward_panics(view.buffer.lines[i], query,
                                               from)
                /\ r = FirstInLineFrom(view.buffer.lines[i], query, from)
                /\ r.is_some => r.val < grapheme_count(view.buffer.lines[i])
                /\ (Line_is_empty(view.buffer.lines[i])
                    \/ from >= grapheme_count(view.buffer.lines[i]))
                       => r = None

\* the locations strictly before from at which query occurs inside one line
OccurrencesBefore(buffer, query, from) ==
    {loc \in {Location(l, g) : l \in 0..(get_height(buffer) - 1),
                               g \in 0..LongestLine(buffer)} :
        /\ LocLeq(loc, from)
        /\ loc # from
        /\ OccursAt(buffer.lines[loc.line_idx + 1], query, loc.grapheme_idx)}

\* the greatest of them, if any
LastOccurrenceBefore(buffer, query, from) ==
    IF OccurrencesBefore(buffer, query, from) = {} THEN None
    ELSE Some(CHOOSE loc \in OccurrencesBefore(buffer, query, from) :
                 \A other \in OccurrencesBefore(buffer, query, from) :
                     LocLeq(other, loc))

\* C12: Buffer.search_backward(query, from) mirrors search_forward: it
\* scans the lines from from.line_idx backward and returns the greatest
\* location strictly before from at which query occurs, and None when
\* there is none.
C12_SearchBackwardGreatest ==
    \A query \in Queries \ {<<>>} : \A from \in FromLocations(view.buffer) :
        /\ ~Buffer_search_backward_panics(view.buffer, query, from)
        /\ Buffer_search_backward(view.buffer, query, from) =
               LastOccurrenceBefore(view.buffer, query, from)

\* the location loc advanced by the grapheme length of query
AdvancedBy(loc, query) ==
    Location(loc.line_idx, loc.grapheme_idx + grapheme_count(Line_from(query)))

\* C13: for every buffer, non-empty query and location loc, if
\* search_forward(query, loc) returns r then search_backward(query, r
\* advanced by the grapheme length of query) returns a location, and that
\* location is not after r.
C13_ForwardThenBackward ==
    \A query \in Queries \ {<<>>} : \A loc \in FromLocations(view.buffer) :
        \E r \in {Buffer_search_forward(view.buffer, query, loc)} :
            (r.is_some /\ ~Buffer_search_forward_panics(view.buffer, query, loc))
            => \E b \in {Buffer_search_backward(view.buffer, query,
                                                AdvancedBy(r.val, query))} :
                   /\ ~Buffer_search_backward_panics(view.buffer, query,
                                                     AdvancedBy(r.val, query))
                   /\ b.is_some
                   /\ LocLeq(b.val, r.val)

\* the last grapheme at which query occurs in the line such that the
\* occurrence lies entirely before from_grapheme_idx, if any
LastInLineBefore(line, query, from_grapheme_idx) ==
    IF \E g \in 0..from_grapheme_idx :
           /\ OccursAt(line, query, g)
           /\ g + grapheme_count(Line_from(query)) <= from_grapheme_idx
    THEN Some(CHOOSE g \in 0..from_grapheme_idx :
                 /\ OccursAt(line, query, g)
                 /\ g + grapheme_count(Line_from(query)) <= from_grapheme_idx
                 /\ \A h \in (g + 1)..from_grapheme_idx :
                        ~(/\ OccursAt(line, query, h)
                          /\ h + grapheme_count(Line_from(query))
                                 <= from_grapheme_idx))
    ELSE None

\* C14: Line.search_backward(query, from) returns the grapheme index of
\* the last occurrence of query that lies entirely before grapheme
\* position from (from == grapheme_count: the whole line), and None on an
\* empty line, when from == 0, and when there is no such occurrence.
C14_LineSearchBackward ==
    \A i \in 1..get_height(view.buffer) : \A query \in Queries \ {<<>>} :
        \A from \in 0..grapheme_count(view.buffer.lines[i]) :
            \E r \in {Line_search_backward(view.buffer.lines[i], query, from)} :
                /\ ~Line_search_backward_panics(view.buffer.lines[i], query,
                                                from)
                /\ r = LastInLineBefore(view.buffer.lines[i], query, from)
                /\ (Line_is_empty(view.buffer.lines[i]) \/ from = 0)
                       => r = None

AfterSave(e, write_ok) == After(e, SystemCommand("Save"), write_ok)

\* C15: a save request in Normal mode is routed by the file association.
\* Without one the mode becomes SavePrompt, no write is attempted and the
\* dirty flag (with the rest of the buffer) is unchanged; with one a write
\* to that path, and no other, is attempted at once and the mode stays
\* Normal.
C15_SaveRouting ==
    NormalAndRunning(Editor) =>
        \A write_ok \in BOOLEAN :
            \E e \in {AfterSave(Editor, write_ok)} :
                IF Buffer_is_file_loaded(view.buffer)
                THEN /\ Len(e.writes) = 1
                     /\ e.writes[1].path = get_path(view.buffer.file_info).val
                     /\ e.writes[1].ok = write_ok
                     /\ e.prompt_type = "None"
                ELSE /\ e.prompt_type = "Save"
                     /\ e.writes = <<>>
                     /\ e.view.buffer = view.buffer

\* a dirty document without a file association whose save request has just
\* opened the save prompt, nothing having been written
C15_Witness ==
    /\ prompt_type = "Save"
    /\ ~should_quit /\ ~view.panicked
    /\ ~Buffer_is_file_loaded(view.buffer)
    /\ view.buffer.dirty
    /\ writes = <<>>
    /\ command_bar.value = Line_default

InSavePrompt(e) ==
    e.prompt_type = "Save" /\ ~e.should_quit /\ ~e.view.panicked

\* C16: Enter in SavePrompt attempts save_as exactly once, with the
\* prompt's current text as the file name, and then the mode is Normal
\* whether or not the write succeeded; on success dirty is false and the
\* file association is that name.  Escape in SavePrompt returns to Normal
\* without any write and without changing dirty or the file association.
C16_SavePromptEnterAndEscape ==
    InSavePrompt(Editor) =>
        /\ \A write_ok \in BOOLEAN :
               \E e \in {After(Editor, EditCommand("InsertNewline"), write_ok)} :
                   /\ Len(e.writes) = 1
                   /\ e.writes[1].path = CommandBar_value(command_bar)
                   /\ e.writes[1].ok = write_ok
                   /\ e.prompt_type = "None"
                   /\ ~e.view.panicked
                   /\ write_ok =>
                          /\ ~e.view.buffer.dirty
                          /\ e.view.buffer.file_info =
                                 FileInfo_from(CommandBar_value(command_bar))
        /\ \E e \in {AfterDismiss(Editor)} :
               /\ e.prompt_type = "None"
               /\ ~e.view.panicked
               /\ e.writes = <<>>
               /\ e.view.buffer.dirty = view.buffer.dirty
               /\ e.view.buffer.file_info = view.buffer.file_info

\* a save prompt on a dirty document holding a name: Enter with a write
\* that succeeds leaves a clean document associated with that name, in
\* Normal mode; Escape leaves the document dirty and without a name
C16_Witness ==
    /\ InSavePrompt(Editor)
    /\ view.buffer.dirty
    /\ ~Buffer_is_file_loaded(view.buffer)
    /\ CommandBar_value(command_bar) = FileName
    /\ \E e \in {AfterEnter(Editor)} :
           /\ e.prompt_type = "None"
           /\ ~e.view.buffer.dirty
           /\ get_path(e.view.buffer.file_info) = Some(FileName)
           /\ e.writes # <<>>
    /\ AfterDismiss(Editor).view.buffer.dirty

\* the edit commands but Enter: insert-char, insert-tab, delete-forward,
\* delete-backward
TextEditCommands ==
    {InsertCommand(ch) : ch \in KeyChars}
    \cup {EditCommand(k) : k \in {"InsertTab", "Delete", "DeleteBackward"}}

\* the prompt text after the edit cmd: a character or a tab is appended,
\* the last character is deleted, delete-forward does nothing
ValueAfter(string, cmd) ==
    CASE cmd.edit = "Insert" -> string \o <<cmd.ch>>
      [] cmd.edit = "InsertTab" -> string \o <<TAB>>
      [] cmd.edit = "DeleteBackward" -> SubSeq(string, 1, Len(string) - 1)
      [] OTHER -> string

\* e differs from the editor of the current state in the value of the
\* command bar and in the view at most
OnlyPromptValueAndView(e) ==
    /\ e.prompt_type = prompt_type
    /\ e.command_bar = [command_bar EXCEPT !.value = e.command_bar.value]
    /\ e.terminal_size = terminal_size
    /\ e.quit_times = quit_times
    /\ e.should_quit = should_quit
    /\ e.message = message
    /\ e.writes = <<>>

\* C17: in SavePrompt and SearchPrompt an edit command (insert-char,
\* insert-tab, delete-forward, delete-backward) changes the prompt's input
\* buffer and never the document's lines or dirty flag; in SavePrompt it
\* leaves the cursor and the scroll offset of the document unchanged too;
\* in Normal mode the same command is applied to the document and leaves
\* the prompt's buffer unchanged.
C17_PromptRoutingFrame ==
    \A cmd \in TextEditCommands :
        \E e \in {After(Editor, cmd, TRUE)} :
            /\ (InSavePrompt(Editor) \/ InSearchPrompt(Editor)) =>
                   /\ OnlyPromptValueAndView(e)
                   /\ e.command_bar.value.string =
                          ValueAfter(command_bar.value.string, cmd)
                   /\ e.view.buffer = view.buffer
            /\ InSavePrompt(Editor) =>
                   /\ e.view.text_location = view.text_location
                   /\ e.view.scroll_offset = view.scroll_offset
            /\ NormalAndRunning(Editor) =>
                   /\ e.command_bar = command_bar
                   /\ e.prompt_type = "None"
                   /\ e.view = handle_edit_command(view, cmd)
                   /\ (cmd.edit \in {"Insert", "InsertTab"}
                       /\ ~e.view.panicked) =>
                          /\ e.view.buffer.dirty
                          /\ e.view.buffer.lines # view.buffer.lines

\* a save prompt into which a character has been typed, on a document that
\* has text: the next character goes to the prompt as well, the document
\* staying as it is
C17_Witness ==
    /\ InSavePrompt(Editor)
    /\ command_bar.value.string = <<"a">>
    /\ ~Buffer_is_empty(view.buffer)
    /\ \E e \in {After(Editor, InsertCommand("a"), TRUE)} :
           /\ e.command_bar.value.string = <<"a", "a">>
           /\ e.view.buffer = view.buffer
           /\ e.view.text_location = view.text_location

\* the names a buffer can be saved under
FileNames == {<<>>, FileName}

\* C18: a failed save leaves the buffer unchanged.  If the write in save()
\* or save_as(path) fails, an error is returned and the editor reports
\* 'Error writing file!', and the buffer's lines, dirty flag and file
\* association are exactly as before the call; save_as changes the
\* association only after a successful write.
C18_SaveFailureKeepsBuffer ==
    /\ Buffer_is_file_loaded(view.buffer) =>
           /\ ~Buffer_save(view.buffer, FALSE).ok
           /\ Buffer_save(view.buffer, FALSE).buffer = view.buffer
    /\ \A filename \in FileNames :
           /\ ~Buffer_save_as(view.buffer, filename, FALSE).ok
           /\ Buffer_save_as(view.buffer, filename, FALSE).buffer = view.buffer
    /\ (NormalAndRunning(Editor) /\ Buffer_is_file_loaded(view.buffer)) =>
           \E e \in {AfterSave(Editor, FALSE)} :
               /\ e.message = Text("Error writing file!")
               /\ e.view.buffer = view.buffer
    /\ InSavePrompt(Editor) =>
           \E e \in {After(Editor, EditCommand("InsertNewline"), FALSE)} :
               /\ e.message = Text("Error writing file!")
               /\ e.view.buffer = view.buffer

\* the editor has just reported a failed write, and the document is still
\* dirty and still without a file association: the save-as failed
C18_Witness ==
    /\ message = Text("Error writing file!")
    /\ Len(writes) = 1
    /\ ~writes[1].ok
    /\ writes[1].path = FileName
    /\ view.buffer.dirty
    /\ ~Buffer_is_empty(view.buffer)
    /\ ~Buffer_is_file_loaded(view.buffer)

\* the positions of the line feeds of a text, and of the k-th of them
LineFeeds(text) == {i \in 1..Len(text) : text[i] = LF}
LineFeed(text, k) ==
    CHOOSE i \in LineFeeds(text) :
        Cardinality({j \in LineFeeds(text) : j <= i}) = k

\* the text lines of a file: one for every line feed, and one more for
\* what follows the last line feed, if anything does
TextLineCount(text) ==
    Cardinality(LineFeeds(text))
    + IF text # <<>> /\ text[Len(text)] # LF THEN 1 ELSE 0

\* the k-th text line, without its line end (LF, or CR LF)
TextLine(text, k) ==
    LET first == IF k = 1 THEN 1 ELSE LineFeed(text, k - 1) + 1
        ended == k <= Cardinality(LineFeeds(text))
        last == IF ended THEN LineFeed(text, k) - 1 ELSE Len(text)
    IN  IF ended /\ last >= first /\ text[last] = CR
        THEN SubSeq(text, first, last - 1)
        ELSE SubSeq(text, first, last)

\* the text that saving the buffer writes
SavedText(buffer) ==
    WrittenText([i \in 1..Len(buffer.lines) |-> buffer.lines[i].string])

\* C19: a failed load is recovered locally.  Buffer.load(path) on a file
\* that cannot be read yields exactly one line whose text is empty,
\* dirty == true and the file association set to path (is_file_loaded());
\* a successful load yields one Line per text line of the file, with
\* dirty == false and the same association.
C19_LoadRecovers ==
    /\ \E b \in {Buffer_load(FileName, None)} :
           /\ Len(b.lines) = 1
           /\ b.lines[1].string = <<>>
           /\ grapheme_count(b.lines[1]) = 0
           /\ b.dirty
           /\ Buffer_is_file_loaded(b)
           /\ get_path(b.file_info) = Some(FileName)
    /\ \A text \in FileTexts \cup {SavedText(view.buffer)} :
           \E b \in {Buffer_load(FileName, Some(text))} :
               /\ Len(b.lines) = TextLineCount(text)
               /\ \A k \in 1..Len(b.lines) :
                      b.lines[k] = Line_from(TextLine(text, k))
               /\ ~b.dirty
               /\ get_path(b.file_info) = Some(FileName)

\* the editor has started on a file that could not be read: one empty
\* line, dirty, associated with the path
C19_Witness ==
    /\ view.buffer = Buffer_load(FileName, None)
    /\ get_height(view.buffer) = 1
    /\ Line_is_empty(view.buffer.lines[1])
    /\ view.buffer.dirty
    /\ Buffer_is_file_loaded(view.buffer)
    /\ message = HelpMessage

\* the buffer that a successful save of buffer followed by a load of the
\* path written gives
SavedAndLoaded(buffer) ==
    Buffer_load(Buffer_save(buffer, TRUE).writes[1].path,
                Some(Buffer_save(buffer, TRUE).writes[1].text))

\* C20: save/load round trip.  For every buffer reachable by edit
\* commands, a successful save followed by a load of the same path yields
\* a buffer with the same number of lines, identical text in every line,
\* and is_modified == false; every line is written followed by exactly one
\* newline.
C20_SaveLoadRoundTrip ==
    (Buffer_is_file_loaded(view.buffer) /\ ~view.panicked) =>
        /\ Buffer_save(view.buffer, TRUE).ok
        /\ Len(Buffer_save(view.buffer, TRUE).writes) = 1
        /\ \E b \in {SavedAndLoaded(view.buffer)} :
               /\ Len(b.lines) = Len(view.buffer.lines)
               /\ \A i \in 1..Len(b.lines) :
                      b.lines[i].string = view.buffer.lines[i].string
               /\ ~b.dirty
               /\ b.file_info = view.buffer.file_info

\* the text of the lines of a buffer
LinesText(buffer) == [i \in 1..Len(buffer.lines) |-> buffer.lines[i].string]

\* the editor starts dirty, or with nothing to save, or with what it has
\* loaded
StartsPersisted ==
    \/ view.buffer.dirty
    \/ Buffer_is_empty(view.buffer)
    \/ \E text \in FileContents :
           view.buffer = Buffer_load(FileName, Some(text))

\* a step that changes the text of the buffer leaves it dirty, and a
\* step that makes a dirty buffer clean has written that text to a file
\* with success
DirtyStep ==
    /\ LinesText(view'.buffer) # LinesText(view.buffer) => view'.buffer.dirty
    /\ (view.buffer.dirty /\ ~view'.buffer.dirty) =>
           /\ Len(writes') = 1
           /\ writes'[1].ok
           /\ writes'[1].text = SavedText(view'.buffer)
           /\ get_path(view'.buffer.file_info) = Some(writes'[1].path)
           /\ LinesText(view'.buffer) = LinesText(view.buffer)

\* C21: no unsaved change is ever reported clean.  The buffer is clean
\* only while its line content is the content last loaded or saved with
\* success: every change of the content leaves dirty true, and dirty
\* becomes false only through a successful save (or a successful load, at
\* the start).
C21_DirtyTracksChanges == StartsPersisted /\ [][DirtyStep]_vars

\* a document that has been changed, saved with success and changed again:
\* it is dirty
C21_Witness ==
    /\ view.buffer.dirty
    /\ Buffer_is_file_loaded(view.buffer)
    /\ message = Text("File saved successfully")
    /\ writes = <<>>
    /\ ~view.panicked

\* the characters that can be inserted into a line of the view
InsertedChars == ViewChars \cup {TAB}

\* the lines of the buffer, segmented afresh
FreshLines == {Line_from(view.buffer.lines[i].string) :
                  i \in 1..get_height(view.buffer)}

InsertThenDelete(line, ch, at) ==
    Line_delete(Line_insert_char(line, ch, at), at)

OwnGrapheme(line, ch, at) ==
    /\ grapheme_count(Line_insert_char(line, ch, at))
           = grapheme_count(line) + 1
    /\ Line_insert_char(line, ch, at).fragments[at + 1].grapheme = <<ch>>

Joined(texts, l) ==
    [i \in 1..(Len(texts) - 1) |->
        IF i < l + 1 THEN texts[i]
        ELSE IF i = l + 1 THEN texts[i] \o texts[i + 1]
        ELSE texts[i + 1]]

\* C23: Buffer.delete at the end of a line that has a next line replaces
\* the two lines by their concatenation (one line less, the other lines
\* unchanged and in order); at the end of the last line it leaves the
\* content unchanged; at a line index >= height it changes neither the
\* lines nor the dirty flag.
C23_DeleteJoinsLines ==
    \A l \in 0..(get_height(view.buffer) + 1) :
        IF l >= get_height(view.buffer)
        THEN \A g \in 0..MaxDocChars :
                 /\ ~Buffer_delete_panics(view.buffer, Location(l, g))
                 /\ Buffer_delete(view.buffer, Location(l, g)) = view.buffer
        ELSE \E at \in {Location(l, grapheme_count(view.buffer.lines[l + 1]))} :
             \E deleted \in {Buffer_delete(view.buffer, at)} :
                 /\ ~Buffer_delete_panics(view.buffer, at)
                 /\ IF l + 1 < get_height(view.buffer)
                    THEN /\ get_height(deleted) = get_height(view.buffer) - 1
                         /\ LinesText(deleted) = Joined(LinesText(view.buffer), l)
                    ELSE LinesText(deleted) = LinesText(view.buffer)

\* two lines with text, joined by a delete at the end of the first, and
\* left alone by a delete at the end of the second
C23_Witness ==
    /\ get_height(view.buffer) = 2
    /\ view.buffer.lines[1].string # <<>>
    /\ view.buffer.lines[2].string # <<>>
    /\ LinesText(Buffer_delete(view.buffer,
                               Location(0, grapheme_count(view.buffer.lines[1]))))
           = <<view.buffer.lines[1].string \o view.buffer.lines[2].string>>
    /\ LinesText(Buffer_delete(view.buffer,
                               Location(1, grapheme_count(view.buffer.lines[2]))))
           = LinesText(view.buffer)
    /\ Buffer_delete(view.buffer, Location(2, 0)) = view.buffer

RECURSIVE ConcatWithout(_, _, _)
\* the graphemes of fragments from index i (1-based) on, one after the
\* other, leaving out grapheme skip (1-based)
ConcatWithout(fragments, skip, i) ==
    IF i > Len(fragments) THEN <<>>
    ELSE (IF i = skip THEN <<>> ELSE fragments[i].grapheme)
             \o ConcatWithout(fragments, skip, i + 1)

\* the text without its grapheme g (0-based), by its segmentation
WithoutGrapheme(string, g) ==
    ConcatWithout(Line_from(string).fragments, g + 1, 1)

\* the texts a delete-backward at (l, g) must leave, and the cursor it
\* must leave: the grapheme before the cursor removed, or the line joined
\* to the one above
TextsDeletedBefore(texts, l, g) ==
    IF g > 0 THEN [texts EXCEPT ![l + 1] = WithoutGrapheme(@, g - 1)]
    ELSE IF l < Len(texts) THEN Joined(texts, l - 1)
    ELSE texts

LocationBefore(texts, l, g) ==
    IF g > 0 THEN Location(l, g - 1)
    ELSE Location(l - 1, Len(Line_from(texts[l]).fragments))

DeletedBackward == After(Editor, EditCommand("DeleteBackward"), TRUE).view

\* C24: delete-backward at (0, 0) leaves the lines, the dirty flag, the
\* cursor and the scroll offset unchanged; at any other location it
\* removes exactly the grapheme, or the line break, immediately before
\* the cursor and moves the cursor onto that position.
C24_DeleteBackward ==
    (prompt_type = "None" /\ ~view.panicked) =>
        \E l \in {view.text_location.line_idx} :
        \E g \in {view.text_location.grapheme_idx} :
        \E d \in {DeletedBackward} :
            IF l = 0 /\ g = 0
            THEN /\ d.buffer = view.buffer
                 /\ d.text_location = view.text_location
                 /\ d.scroll_offset = view.scroll_offset
            ELSE /\ ~d.panicked
                 /\ LinesText(d.buffer)
                        = TextsDeletedBefore(LinesText(view.buffer), l, g)
                 /\ d.text_location
                        = LocationBefore(LinesText(view.buffer), l, g)

\* the lines of the buffer are segmented as their text is
WellSegmented ==
    \A i \in 1..get_height(view.buffer) :
        view.buffer.lines[i] = Line_from(view.buffer.lines[i].string)

\* delete-backward does what C24 states wherever the fragments of the
\* lines match their text
C24_DeleteBackwardWellSegmented == WellSegmented => C24_DeleteBackward

RECURSIVE ConcatRange(_, _, _)
\* the graphemes lo..hi - 1 (0-based) of fragments, one after the other
ConcatRange(fragments, lo, hi) ==
    IF lo >= hi THEN <<>>
    ELSE fragments[lo + 1].grapheme \o ConcatRange(fragments, lo + 1, hi)

\* C25: Line.split(at) splits the text at the byte offset of grapheme
\* at: the line keeps graphemes [0, at), the returned line holds
\* graphemes [at, count), and the two texts one after the other are the
\* original text, for multi-byte as well as ASCII graphemes.
C25_SplitAtGrapheme ==
    \A line \in FreshLines : \A at \in 0..grapheme_count(line) :
        /\ ~Line_split_panics(line, at)
        /\ Line_split(line, at).left.string
               = ConcatRange(line.fragments, 0, at)
        /\ Line_split(line, at).right.string
               = ConcatRange(line.fragments, at, grapheme_count(line))
        /\ Line_split(line, at).left.string \o Line_split(line, at).right.string
               = line.string

\* the text of every line is made of one-byte characters, each a
\* grapheme of its own
OneByteGraphemes ==
    \A line \in FreshLines :
        /\ grapheme_count(line) = Len(line.string)
        /\ StrByteLen(line.string) = Len(line.string)

\* the split does what C25 states wherever byte offsets and grapheme
\* indices are the same numbers
C25_SplitAtGraphemeOneByte == OneByteGraphemes => C25_SplitAtGrapheme

\* the fragments of line are a segmentation of its text: the first starts
\* at byte 0, each next one starts where the one before it ends, the last
\* ends at the byte length of the text, and they are the graphemes of
\* the text
Segmented(line) ==
    /\ \A k \in 1..Len(line.fragments) :
           line.fragments[k].start_byte_idx
               = IF k = 1 THEN 0
                 ELSE line.fragments[k - 1].start_byte_idx
                          + StrByteLen(line.fragments[k - 1].grapheme)
    /\ StrByteLen(ConcatRange(line.fragments, 0, Len(line.fragments)))
           = StrByteLen(line.string)
    /\ line.fragments = Line_from(line.string).fragments

\* the operations of Line that rebuild the fragments leave them a
\* segmentation of the text
SegmentedAfterRebuild ==
    \A line \in FreshLines :
        /\ Segmented(line)
        /\ \A other \in FreshLines : Segmented(Line_append(line, other))
        /\ \A at \in 0..grapheme_count(line) :
               /\ Segmented(Line_delete(line, at))
               /\ \A ch \in InsertedChars :
                      Segmented(Line_insert_char(line, ch, at))

\* C26: after every operation of Line (from, insert_char, delete,
\* append, split, for both the line split and the line returned) the
\* fragments are exactly the segmentation of the current text.
C26_FragmentInvariant ==
    /\ SegmentedAfterRebuild
    /\ \A line \in FreshLines : \A at \in 0..grapheme_count(line) :
           ~Line_split_panics(line, at) =>
               /\ Segmented(Line_split(line, at).left)
               /\ Segmented(Line_split(line, at).right)

\* the invariant of C26 for from, insert_char, delete and append
C26_FragmentInvariantButSplit == SegmentedAfterRebuild

\* the steps of a vertical move that are tried: none, one line, and up
\* to one beyond the lines of the largest document
VerticalSteps == 0..(MaxLines + 1)

\* the cursor that a vertical move to target_line must leave
SnappedAt(target_line) ==
    Location(target_line,
             IF target_line < get_height(view.buffer)
             THEN Min(view.text_location.grapheme_idx,
                      grapheme_count(view.buffer.lines[target_line + 1]))
             ELSE 0)

UpTarget(step) == Max(0, view.text_location.line_idx - step)
DownTarget(step) ==
    Min(get_height(view.buffer), view.text_location.line_idx + step)

PageStep == IF view.size.height > 0 THEN view.size.height - 1 ELSE 0

\* C27: Up(step) moves to line max(0, line_idx - step), Down(step) to
\* line min(height, line_idx + step), never below the position under the
\* last line; grapheme_idx becomes min(old, grapheme count of the target
\* line), 0 under the last line; PageUp and PageDown are Up and Down with
\* step = view height - 1, saturating at 0.
C27_VerticalMoves ==
    ~view.panicked =>
        /\ \A step \in VerticalSteps :
               /\ move_up(view, step).text_location = SnappedAt(UpTarget(step))
               /\ move_down(view, step).text_location
                      = SnappedAt(DownTarget(step))
               /\ move_down(view, step).text_location.line_idx
                      <= get_height(view.buffer)
        /\ handle_move_command(view, "Up").text_location
               = SnappedAt(UpTarget(1))
        /\ handle_move_command(view, "Down").text_location
               = SnappedAt(DownTarget(1))
        /\ handle_move_command(view, "PageUp").text_location
               = SnappedAt(UpTarget(PageStep))
        /\ handle_move_command(view, "PageDown").text_location
               = SnappedAt(DownTarget(PageStep))

\* the cursor behind the text of the first of two lines, the second
\* empty: Down snaps the grapheme index to the empty line, a Down by two
\* arrives under the last line at grapheme 0, a Down by three stays
\* there, and Up from there by three ends on the first line
C27_Witness ==
    /\ ~view.panicked
    /\ get_height(view.buffer) = 2
    /\ view.text_location = Location(0, 1)
    /\ grapheme_count(view.buffer.lines[2]) = 0
    /\ move_down(view, 1).text_location = Location(1, 0)
    /\ move_down(view, 2).text_location = Location(2, 0)
    /\ move_down(view, 3).text_location = Location(2, 0)
    /\ move_up(move_down(view, 3), 3).text_location = Location(0, 0)

\* the cursor that Left must leave
LeftOf(l, g) ==
    IF g = 0 /\ l > 0
    THEN Location(l - 1, grapheme_count(view.buffer.lines[l]))
    ELSE IF g = 0 THEN Location(0, 0)
    ELSE Location(l, g - 1)

\* C28: Left at grapheme 0 of a line with line_idx > 0 moves the cursor
\* to the end of the line above; at (0, 0) the cursor stays; anywhere
\* else grapheme_idx decreases by exactly one and line_idx is unchanged.
C28_MoveLeft ==
    ~view.panicked =>
        /\ move_left(view, 1).text_location
               = LeftOf(view.text_location.line_idx,
                        view.text_location.grapheme_idx)
        /\ handle_move_command(view, "Left").text_location
               = LeftOf(view.text_location.line_idx,
                        view.text_location.grapheme_idx)

\* the columns that column ranges are drawn from: those of the widest
\* line, and one beyond
Columns == 0..(2 * MaxDocChars + 1)

\* what is drawn of the fragments from column pos on in the columns
\* [s, e): a fragment inside the range as its replacement or its
\* grapheme, a fragment across an edge of the range as one ellipsis
RECURSIVE DrawnInside(_, _, _, _)
DrawnInside(fragments, pos, s, e) ==
    IF fragments = <<>> THEN <<>>
    ELSE LET fragment == Head(fragments)
             fragment_end ==
                 pos + (IF fragment.rendered_width = "Half" THEN 1 ELSE 2)
         IN  (IF pos >= s /\ fragment_end <= e
              THEN IF fragment.replacement.is_some
                   THEN <<fragment.replacement.val>>
                   ELSE fragment.grapheme
              ELSE IF \/ pos < s /\ fragment_end > s
                      \/ pos < e /\ fragment_end > e
              THEN <<Ellipsis>>
              ELSE <<>>)
             \o DrawnInside(Tail(fragments), fragment_end, s, e)

\* the columns that the text drawn of the fragments from column pos on
\* takes: its rendered width for a fragment inside the range (one for a
\* replacement character), one for an ellipsis
RECURSIVE DrawnWidth(_, _, _, _)
DrawnWidth(fragments, pos, s, e) ==
    IF fragments = <<>> THEN 0
    ELSE LET fragment == Head(fragments)
             fragment_end ==
                 pos + (IF fragment.rendered_width = "Half" THEN 1 ELSE 2)
         IN  (IF pos >= s /\ fragment_end <= e THEN fragment_end - pos
              ELSE IF \/ pos < s /\ fragment_end > s
                      \/ pos < e /\ fragment_end > e
              THEN 1
              ELSE 0)
             + DrawnWidth(Tail(fragments), fragment_end, s, e)

ScrollTargets == 0..(2 * MaxDocChars + MaxHeight + MaxWidth)

\* the offset that the scroll-into-view rule gives for the position to,
\* the offset before and the extent of the view
ScrolledOffset(to, offset, extent) ==
    IF to < offset THEN to
    ELSE IF to >= offset + extent THEN to - extent + 1
    ELSE offset

\* C30: for a view of height > 0 the new offset.row is row if
\* row < offset.row, row - height + 1 if row >= offset.row + height, and
\* the old offset.row otherwise, and the same for col and width; a
\* visible cursor leaves the offset unchanged, and every change of the
\* offset sets needs_redraw.
C30_ScrollIntoView ==
    ~view.panicked =>
        /\ view.size.height > 0 =>
               \A to \in ScrollTargets :
                   /\ scroll_vertically(view, to)
                          = [view EXCEPT !.scroll_offset.row =
                                ScrolledOffset(to, @, view.size.height)]
                   /\ \A needs_redraw \in BOOLEAN :
                          scroll_vertically_needs_redraw(view, to, needs_redraw)
                              = (\/ needs_redraw
                                 \/ scroll_vertically(view, to).scroll_offset
                                        # view.scroll_offset)
        /\ view.size.width > 0 =>
               \A to \in ScrollTargets :
                   /\ scroll_horizontally(view, to)
                          = [view EXCEPT !.scroll_offset.col =
                                ScrolledOffset(to, @, view.size.width)]
                   /\ \A needs_redraw \in BOOLEAN :
                          scroll_horizontally_needs_redraw(view, to, needs_redraw)
                              = (\/ needs_redraw
                                 \/ scroll_horizontally(view, to).scroll_offset
                                        # view.scroll_offset)
        /\ (view.size.height > 0 /\ view.size.width > 0) =>
               \E p \in {text_location_to_position(view)} :
                   /\ scroll_text_location_into_view(view).scroll_offset
                          = Position(ScrolledOffset(p.row, view.scroll_offset.row,
                                                    view.size.height),
                                     ScrolledOffset(p.col, view.scroll_offset.col,
                                                    view.size.width))
                   /\ (/\ view.scroll_offset.row <= p.row
                       /\ p.row < view.scroll_offset.row + view.size.height
                       /\ view.scroll_offset.col <= p.col
                       /\ p.col < view.scroll_offset.col + view.size.width)
                          => scroll_text_location_into_view(view) = view

\* a view of two rows scrolled down by one row: a scroll to row 0 goes
\* up to it, a scroll to row 3 brings row 3 to the last row of the
\* view, both set needs_redraw, and a scroll to row 2 changes nothing
C30_Witness ==
    /\ ~view.panicked
    /\ view.size.height = 2
    /\ view.scroll_offset.row = 1
    /\ scroll_vertically(view, 0).scroll_offset.row = 0
    /\ scroll_vertically(view, 3).scroll_offset.row = 2
    /\ scroll_vertically_needs_redraw(view, 0, FALSE)
    /\ scroll_vertically_needs_redraw(view, 3, FALSE)
    /\ scroll_vertically(view, 2) = view
    /\ ~scroll_vertically_needs_redraw(view, 2, FALSE)

\* the lines that the buffer holds, with the fragments they have
BufferLines == {view.buffer.lines[i] : i \in 1..get_height(view.buffer)}

\* the columns of fragment k (1-based) of line
FragmentColumns(line, k) ==
    IF line.fragments[k].rendered_width = "Half" THEN 1 ELSE 2

\* C31: for every line L, width_until(L, grapheme_count(L)) = width(L),
\* width_until(L, n) = width(L) for every n > grapheme_count(L), and
\* width_until is non-decreasing in n, each step up to the grapheme count
\* adding the 1 or 2 columns of the grapheme passed.
C31_WidthUntil ==
    \A line \in BufferLines \cup FreshLines :
        /\ width_until(line, 0) = 0
        /\ width_until(line, grapheme_count(line)) = width(line)
        /\ \A n \in (grapheme_count(line) + 1)..(grapheme_count(line) + 2) :
               width_until(line, n) = width(line)
        /\ \A n \in 0..(grapheme_count(line) - 1) :
               /\ width_until(line, n + 1) - width_until(line, n)
                      = FragmentColumns(line, n + 1)
               /\ width_until(line, n + 1) - width_until(line, n) \in {1, 2}
               /\ width_until(line, n) < width(line)

\* a line of one grapheme two columns wide, a letter with its combining
\* mark: no columns before it, two behind it and from there on
C31_Witness ==
    \E line \in BufferLines :
        /\ line.string = <<"a", "s">>
        /\ grapheme_count(line) = 1
        /\ width_until(line, 0) = 0
        /\ width_until(line, 1) = 2
        /\ width_until(line, 2) = 2
        /\ width(line) = 2

\* the cursor of the view v is on a grapheme of a line or behind its
\* last one, or at grapheme 0 of the position below the last line
CursorValid(v) ==
    /\ v.text_location.line_idx <= get_height(v.buffer)
    /\ v.text_location.line_idx < get_height(v.buffer) =>
           v.text_location.grapheme_idx
               <= grapheme_count(v.buffer.lines[v.text_location.line_idx + 1])
    /\ v.text_location.line_idx = get_height(v.buffer) =>
           v.text_location.grapheme_idx = 0

\* C32: after every command in every mode the cursor satisfies
\* line_idx <= height, grapheme_idx <= grapheme_count(lines[line_idx])
\* when line_idx < height, and grapheme_idx = 0 when line_idx = height.
C32_CursorValidity == ~view.panicked => CursorValid(view)

\* the editor after an insert-newline, and after the delete-backward
\* that follows it
AfterNewline == After(Editor, EditCommand("InsertNewline"), TRUE)
AfterNewlineAndBackspace ==
    After(AfterNewline, EditCommand("DeleteBackward"), TRUE)

\* the line texts with line l (0-based) cut in two before grapheme g
SplitTexts(texts, l, g) ==
    [i \in 1..(Len(texts) + 1) |->
        IF i < l + 1 THEN texts[i]
        ELSE IF i = l + 1
        THEN ConcatRange(Line_from(texts[i]).fragments, 0, g)
        ELSE IF i = l + 2
        THEN ConcatRange(Line_from(texts[i - 1]).fragments, g,
                         Len(Line_from(texts[i - 1]).fragments))
        ELSE texts[i - 1]]

\* C33: in Normal mode an insert-newline with the cursor at (l, g),
\* l < height, splits line l at g into lines l and l + 1 and leaves the
\* cursor at (l + 1, 0), whatever the length of the part moved to the
\* new line; a delete-backward right after it restores the lines of the
\* buffer and the cursor (l, g).
C33_NewlineThenBackspace ==
    (NormalAndRunning(Editor) /\ HasCurrentLine(view) /\ CursorValid(view)) =>
        /\ ~AfterNewline.view.panicked
        /\ LinesText(AfterNewline.view.buffer)
               = SplitTexts(LinesText(view.buffer),
                            view.text_location.line_idx,
                            view.text_location.grapheme_idx)
        /\ AfterNewline.view.text_location
               = Location(view.text_location.line_idx + 1, 0)
        /\ ~AfterNewlineAndBackspace.view.panicked
        /\ LinesText(AfterNewlineAndBackspace.view.buffer)
               = LinesText(view.buffer)
        /\ AfterNewlineAndBackspace.view.text_location = view.text_location

\* C33 where the part moved to the new line is empty and the lines are
\* segmented as their text is: the cursor is at the end of its line
C33_NewlineAtEndThenBackspace ==
    (/\ WellSegmented
     /\ OneByteGraphemes
     /\ HasCurrentLine(view)
     /\ view.text_location.grapheme_idx = CurrentLineLen(view))
        => C33_NewlineThenBackspace

\* C33 where every grapheme is one byte and the lines are segmented as
\* their text is
C33_NewlineThenBackspaceOneByte ==
    (WellSegmented /\ OneByteGraphemes) => C33_NewlineThenBackspace

\* the text of the line under the cursor, empty below the last line
CurrentText ==
    IF HasCurrentLine(view) THEN CurrentLine(view).string ELSE <<>>

\* the text with ch put before its grapheme g (0-based), behind the last
\* grapheme when g is the grapheme count
WithCharAt(string, ch, g) ==
    ConcatRange(Line_from(string).fragments, 0, g)
        \o <<ch>>
        \o ConcatRange(Line_from(string).fragments, g,
                       Len(Line_from(string).fragments))

\* an insert-char of ch puts ch at the cursor and the cursor behind it
TypedAtCursor(ch) ==
    \E e \in {After(Editor, InsertCommand(ch), TRUE)} :
        /\ ~e.view.panicked
        /\ get_height(e.view.buffer) > view.text_location.line_idx
        /\ e.view.buffer.lines[view.text_location.line_idx + 1].string
               = WithCharAt(CurrentText, ch, view.text_location.grapheme_idx)
        /\ e.view.text_location
               = Location(view.text_location.line_idx,
                          view.text_location.grapheme_idx + 1)

\* C34: in every reachable Normal-mode state, also right after an
\* insert-newline that split a line, an insert-char with the cursor at
\* (l, g) yields a line l of the old graphemes [0, g), the typed
\* character and the old graphemes [g, count), moves the cursor to
\* (l, g + 1), and does not abort.
C34_TypedCharLandsAtCursor ==
    (NormalAndRunning(Editor) /\ CursorValid(view)) =>
        \A ch \in ViewChars : TypedAtCursor(ch)

\* C34 for a character that becomes a grapheme of its own, in a line
\* that is segmented as its text is
C34_TypedCharWellSegmented ==
    (NormalAndRunning(Editor) /\ CursorValid(view) /\ WellSegmented) =>
        \A ch \in ViewChars :
            OwnGrapheme(Line_from(CurrentText), ch,
                        view.text_location.grapheme_idx)
                => TypedAtCursor(ch)

\* C34 for a character that becomes a grapheme of its own
C34_TypedCharOwnGrapheme ==
    (NormalAndRunning(Editor) /\ CursorValid(view)) =>
        \A ch \in ViewChars :
            OwnGrapheme(Line_from(CurrentText), ch,
                        view.text_location.grapheme_idx)
                => TypedAtCursor(ch)

\* C35: a movement command received in SavePrompt or SearchPrompt leaves
\* the mode, the prompt value, the cursor, the scroll offset and the
\* buffer unchanged, and the editor keeps running (no panic).
C35_MovesIgnoredInPrompt ==
    (prompt_type # "None" /\ Running) =>
        \A m \in Moves :
            \E e \in {After(Editor, MoveCommand(m), TRUE)} :
                /\ ~e.view.panicked
                /\ ~e.should_quit
                /\ e.prompt_type = prompt_type
                /\ e.command_bar.value = command_bar.value
                /\ e.view.text_location = view.text_location
                /\ e.view.scroll_offset = view.scroll_offset
                /\ e.view.buffer = view.buffer

\* a movement command in a prompt changes nothing but ends the editor
\* with a panic
C35_MovesPanicInPrompt ==
    (prompt_type # "None" /\ Running) =>
        \A m \in Moves :
            \E e \in {After(Editor, MoveCommand(m), TRUE)} :
                /\ e.view.panicked
                /\ e.prompt_type = prompt_type
                /\ e.command_bar.value = command_bar.value
                /\ e.view.text_location = view.text_location
                /\ e.view.scroll_offset = view.scroll_offset
                /\ e.view.buffer = view.buffer

\* the terminals that the editor is resized to while a prompt is shown:
\* the widths up to that of the widest terminal
PromptTerminalSizes ==
    {Size(h + 2, w) : h \in 1..MaxHeight, w \in 1..12}

\* the commands that leave the editor in its prompt and have the command
\* bar drawn again: the edits of the prompt value and the resizes
PromptRedrawCommands ==
    TextEditCommands
    \cup {ResizeCommand(size) : size \in PromptTerminalSizes}

\* C36: in every reachable state in which a prompt is active and the
\* command bar is drawn, the byte length of the prompt text plus the
\* visible value is strictly less than the bar width, for every terminal
\* width and every value the user can type: the assertion of
\* CommandBar::draw never fails.
C36_DrawAssertionHolds ==
    (prompt_type # "None" /\ Running) =>
        /\ ~CommandBar_draw_panics(command_bar)
        /\ \A cmd \in PromptRedrawCommands :
               ~After(Editor, cmd, TRUE).view.panicked

\* the width that the prompt and the value of the bar need to be drawn:
\* one more than the prompt, and one for every column of the value
NeededWidth(bar) == PromptLen(bar.prompt) + width(bar.value) + 1

\* the assertion of CommandBar::draw holds for the bars wide enough for
\* the prompt, the whole value and one column more, and for a value of
\* letters fails for every other bar
C36_DrawAssertionWhenWideEnough ==
    (prompt_type # "None" /\ Running) =>
        \A cmd \in PromptRedrawCommands :
            \E e \in {process_command([Editor EXCEPT !.writes = <<>>],
                                      cmd, TRUE)} :
                (~e.view.panicked /\ e.command_bar.value.string \in Seq({"a"}))
                    => (CommandBar_draw_panics(e.command_bar)
                            <=> e.command_bar.size.width
                                    < NeededWidth(e.command_bar))

\* the editor e quits on the n-th of n consecutive quit requests, and
\* not before
QuitsOnNth(e, n) ==
    CASE n = 1 -> AfterQuit(e).should_quit
      [] n = 2 -> /\ ~AfterQuit(e).should_quit
                  /\ AfterQuit(AfterQuit(e)).should_quit
      [] OTHER -> FALSE

\* C37: in every reachable state 0 <= quit_times <= QUIT_TIMES - 1, so
\* QUIT_TIMES - quit_times - 1 in the warning never underflows, and the
\* number shown in the warning is the number of further consecutive quit
\* requests needed to quit.
C37_QuitCounterBound ==
    /\ quit_times \in 0..(QUIT_TIMES - 1)
    /\ NormalAndRunning(Editor) =>
           \E e \in {AfterQuit(Editor)} :
               /\ e.quit_times \in 0..(QUIT_TIMES - 1)
               /\ ~e.should_quit =>
                      /\ QUIT_TIMES - quit_times - 1 >= 1
                      /\ e.message = QuitWarning(QUIT_TIMES - quit_times - 1)
                      /\ QuitsOnNth(e, e.message.times)

\* a modified document whose second quit request has just been refused:
\* the counter is at its bound, the warning shows 1, and one more quit
\* request quits
C37_Witness ==
    /\ NormalAndRunning(Editor)
    /\ view.buffer.dirty
    /\ quit_times = QUIT_TIMES - 1
    /\ message = QuitWarning(1)
    /\ AfterQuit(Editor).should_quit

InPrompt == prompt_type # "None" /\ Running

\* the commands that are inert in a prompt
InertInPrompt ==
    {SystemCommand(k) : k \in {"Quit", "Save", "Search", "SearchNext"}}

\* the editor e differs from the one the variables hold at most in the
\* sizes of the terminal, the view and the command bar, and in the scroll
\* offset
OnlySizesAndScroll(e) ==
    /\ e.prompt_type = prompt_type
    /\ e.command_bar.prompt = command_bar.prompt
    /\ e.command_bar.value = command_bar.value
    /\ e.view.text_location = view.text_location
    /\ e.view.buffer = view.buffer
    /\ e.view.search_info = view.search_info
    /\ e.quit_times = quit_times
    /\ e.should_quit = should_quit
    /\ e.message = message
    /\ e.writes = <<>>

\* C39: in SavePrompt and SearchPrompt the commands Quit, Save, Search
\* and SearchNext change nothing (mode, prompt value, cursor, buffer,
\* dirty flag, quit counter), so should_quit is never set while a prompt
\* is active and a prompt is left only by Escape or Enter; a Resize in a
\* prompt changes only sizes and scroll offset.
C39_SystemCommandsInertInPrompts ==
    /\ should_quit => prompt_type = "None"
    /\ InPrompt =>
           /\ \A cmd \in InertInPrompt : \A write_ok \in BOOLEAN :
                  \E e \in {After(Editor, cmd, write_ok)} :
                      /\ OnlySizesAndScroll(e)
                      /\ e.view = view
                      /\ e.command_bar = command_bar
                      /\ e.terminal_size = terminal_size
           /\ \A size \in PromptTerminalSizes :
                  \E e \in {After(Editor, ResizeCommand(size), TRUE)} :
                      /\ OnlySizesAndScroll(e)
                      /\ e.terminal_size = size
           /\ \A cmd \in Commands : \A write_ok \in BOOLEAN :
                  After(Editor, cmd, write_ok).prompt_type # prompt_type
                      => cmd \in {SystemCommand("Dismiss"),
                                  EditCommand("InsertNewline")}

\* a search prompt over a modified document, with a query typed and a
\* match found: Quit and Save leave the editor as it is, and a resize to
\* a lower terminal leaves the prompt, its value and the cursor
C39_Witness ==
    /\ InPrompt
    /\ prompt_type = "Search"
    /\ view.buffer.dirty
    /\ command_bar.value.string # <<>>
    /\ view.search_info.val.previous_location # view.text_location
    /\ ~After(Editor, SystemCommand("Quit"), TRUE).should_quit
    /\ After(Editor, SystemCommand("Save"), TRUE).view.buffer.dirty
    /\ terminal_size.height = MaxHeight + 2
    /\ After(Editor, ResizeCommand(Size(3, 12)), TRUE).prompt_type = "Search"
    /\ After(Editor, ResizeCommand(Size(3, 12)), TRUE).view.size.height = 1

\* the height of the buffer after the edit command, where the command
\* returns
HeightAfter(edit) == get_height(handle_edit_command(view, edit).buffer)
Returns(edit) == ~handle_edit_command(view, edit).panicked

\* the commands that insert a character, insert a newline, delete and
\* delete backward
BufferEdits ==
    {InsertCommand(ch) : ch \in ViewChars}
    \cup {EditCommand(k) : k \in {"InsertNewline", "Delete", "DeleteBackward"}}

\* C40: once the buffer has a line, insert-char, insert-newline, delete
\* and delete-backward never leave it with zero lines; insert-newline
\* raises the height by exactly one, delete lowers it by at most one, and
\* insert-char raises it by one exactly when the cursor is below the last
\* line and leaves it otherwise.
C40_BufferNeverBecomesEmpty ==
    ~view.panicked =>
        LET height == get_height(view.buffer)
        IN  /\ height >= 1 =>
                   \A edit \in BufferEdits :
                       Returns(edit) => HeightAfter(edit) >= 1
            /\ Returns(EditCommand("InsertNewline")) =>
                   HeightAfter(EditCommand("InsertNewline")) = height + 1
            /\ \A k \in {"Delete", "DeleteBackward"} :
                   Returns(EditCommand(k)) =>
                       /\ HeightAfter(EditCommand(k)) <= height
                       /\ HeightAfter(EditCommand(k)) + 1 >= height
            /\ \A ch \in ViewChars :
                   Returns(InsertCommand(ch)) =>
                       HeightAfter(InsertCommand(ch))
                           = IF view.text_location.line_idx = height
                             THEN height + 1
                             ELSE height

\* one empty line with the cursor below it: a character and a newline each
\* add a line; delete and delete-backward leave the one empty line
C40_Witness ==
    /\ ~view.panicked
    /\ LinesText(view.buffer) = <<<<>>>>
    /\ view.text_location = Location(1, 0)
    /\ \A edit \in BufferEdits : Returns(edit)
    /\ HeightAfter(InsertCommand("a")) = 2
    /\ HeightAfter(EditCommand("InsertNewline")) = 2
    /\ HeightAfter(EditCommand("Delete")) = 1
    /\ HeightAfter(EditCommand("DeleteBackward")) = 1

====
